---- MODULE Spec2Model ----
(***************************************************************************)
(* Runtime execution engine of the agent-flow service: the user state      *)
(* orchestrator (services/user_state_service.py), the node walker          *)
(* (services/node_identification_service.py), the reply validator          *)
(* (services/reply_validation_service.py), the internal node processor     *)
(* (services/process_internal_node_service.py), the delay scheduler        *)
(* (services/delay_scheduler_service.py) and the store mutators they use   *)
(* (database/flow_db.py).                                                   *)
(*                                                                         *)
(* Texts (replies, expected inputs, keywords, captured variables) are      *)
(* sequences of one-character strings, so that case folding, length and    *)
(* substring tests are computed.  Python's None and "" are both falsy at   *)
(* every place the engine tests a text, and both are the empty sequence.   *)
(***************************************************************************)
EXTENDS Integers, Sequences, FiniteSets, TLC

VARIABLES flows, flow_triggers, users, delays, ctx, now, senders, inflight,
          streak, fired, log

vars == <<flows, flow_triggers, users, delays, ctx, now, senders, inflight,
          streak, fired, log>>

NULL == "null"

(***************************************************************************)
(* Bounds of the exploration.                                              *)
(***************************************************************************)
MaxDelays == 2
MaxFail == 2
MaxStreak == 5
MaxFired == 2
MaxDuration == 3
MaxTriggers == 2

(***************************************************************************)
(* Texts.                                                                  *)
(***************************************************************************)
LowerChar(c) ==
    CASE c = "G" -> "g"
      [] c = "O" -> "o"
      [] c = "H" -> "h"
      [] c = "I" -> "i"
      [] c = "Y" -> "y"
      [] c = "E" -> "e"
      [] c = "S" -> "s"
      [] c = "A" -> "a"
      [] c = "B" -> "b"
      [] c = "N" -> "n"
      [] OTHER -> c

Lower(s) == [i \in 1..Len(s) |-> LowerChar(s[i])]

EqualsIgnoreCase(a, b) == Lower(a) = Lower(b)

ContainsIgnoreCase(needle, hay) ==
    \E i \in 0..(Len(hay) - Len(needle)) :
        SubSeq(Lower(hay), i + 1, i + Len(needle)) = Lower(needle)

IsSpace(c) == c \in {" ", "\t", "\n"}

RECURSIVE LStrip(_)
LStrip(s) == IF s # << >> /\ IsSpace(Head(s)) THEN LStrip(Tail(s)) ELSE s

RECURSIVE RStrip(_)
RStrip(s) ==
    IF s # << >> /\ IsSpace(s[Len(s)]) THEN RStrip(SubSeq(s, 1, Len(s) - 1))
    ELSE s

\* str.strip(): the text without its leading and trailing whitespace.
Strip(s) == RStrip(LStrip(s))

IntOfStr(raw) ==
    CASE raw = "0" -> 0
      [] raw = "1" -> 1
      [] raw = "2" -> 2
      [] raw = "3" -> 3
      [] OTHER -> -1

IsIntStr(raw) == raw \in {"0", "1", "2", "3"}

(***************************************************************************)
(* The flow store.  One published flow F1:                                 *)
(*                                                                         *)
(*   T (trigger_keyword "hi") -> B                                         *)
(*   B (button_question, failsCount "2")                                   *)
(*       "Go"  : B_go  -> M1 -> M2 -> L                                    *)
(*       "Ask" : B_ask -> Q                                                *)
(*       "End" : B_end -> ME                                               *)
(*       "Bad" : B_bad    (no edge)                                        *)
(*   L (list_question, no answerValidation)                                *)
(*       "Yes" : L_yes -> D1                                               *)
(*       "No"  : L_no  -> MQ -> Q                                          *)
(*   Q (question, variable @x, Text minValue "2", failsCount "1") -> C     *)
(*   C (condition @x Equal "ok")  C__true -> D2, C__false -> ME            *)
(*   D1 (delay, delayInterrupt false)                                      *)
(*       D1__not_interrupted -> B, D1__interrupted -> ME                   *)
(*   D2 (delay, delayInterrupt true)                                       *)
(*       D2__not_interrupted -> ME, D2__interrupted -> D1                  *)
(*   ME (message, no outgoing edge)                                        *)
(***************************************************************************)
Node(id, type) ==
    [id |-> id, type |-> type,
     expectedAnswers |-> << >>,
     hasValidation |-> FALSE, failsCount |-> NULL, fallback |-> "",
     vtype |-> NULL, minValue |-> NULL, maxValue |-> NULL,
     userInputVariable |-> << >>,
     flowNodeConditions |-> << >>, conditionOperator |-> "None",
     results |-> << >>,
     delayInterrupt |-> FALSE, delayDuration |-> 0, delayUnit |-> "minutes"]

Answer(id, input) == [id |-> id, expectedInput |-> input]

Edge(s, t) == [source_node_id |-> s, target_node_id |-> t]

F1Nodes ==
    << Node("T", "trigger_keyword"),
       [Node("B", "button_question") EXCEPT
           !.expectedAnswers = << Answer("B_go", <<"G", "o">>),
                                  Answer("B_ask", <<"A", "s", "k">>),
                                  Answer("B_end", <<"E", "n", "d">>),
                                  Answer("B_bad", <<"B", "a", "d">>) >>,
           !.hasValidation = TRUE, !.failsCount = "2",
           !.fallback = "Pick one."],
       Node("M1", "message"),
       Node("M2", "message"),
       [Node("L", "list_question") EXCEPT
           !.expectedAnswers = << Answer("L_yes", <<"Y", "e", "s">>),
                                  Answer("L_no", <<"N", "o">>) >>],
       Node("MQ", "message"),
       [Node("Q", "question") EXCEPT
           !.hasValidation = TRUE, !.failsCount = "1", !.vtype = "Text",
           !.minValue = "2", !.userInputVariable = <<"@", "x">>],
       [Node("C", "condition") EXCEPT
           !.flowNodeConditions =
               << [variable |-> <<"@", "x">>, flowConditionType |-> "Equal",
                   value |-> <<"o", "k">>] >>,
           !.results = << "C__true", "C__false" >>],
       [Node("D1", "delay") EXCEPT
           !.results = << "D1__interrupted", "D1__not_interrupted" >>,
           !.delayInterrupt = FALSE, !.delayDuration = 1,
           !.delayUnit = "seconds"],
       [Node("D2", "delay") EXCEPT
           !.results = << "D2__interrupted", "D2__not_interrupted" >>,
           !.delayInterrupt = TRUE, !.delayDuration = 1,
           !.delayUnit = "seconds"],
       Node("ME", "message") >>

F1Edges ==
    << Edge("T", "B"),
       Edge("B_go", "M1"), Edge("B_ask", "Q"), Edge("B_end", "ME"),
       Edge("M1", "M2"), Edge("M2", "L"),
       Edge("L_yes", "D1"), Edge("L_no", "MQ"), Edge("MQ", "Q"),
       Edge("Q", "C"),
       Edge("C__true", "D2"), Edge("C__false", "ME"),
       Edge("D1__not_interrupted", "B"), Edge("D1__interrupted", "ME"),
       Edge("D2__not_interrupted", "ME"), Edge("D2__interrupted", "D1") >>

Flows ==
    << [id |-> "F1", status |-> "published",
        flowNodes |-> F1Nodes, edges |-> F1Edges] >>

FlowTriggers ==
    << [flow_id |-> "F1", node_id |-> "T", trigger_type |-> "keyword",
        trigger_values |-> << <<"h", "i">> >>] >>

NoFlow == [id |-> NULL, status |-> NULL, flowNodes |-> << >>, edges |-> << >>]

NoNode == Node(NULL, NULL)

\* FlowDB.get_flow_by_id: the flow with that id, or none.
get_flow_by_id(flow_id) ==
    LET hits == SelectSeq(flows, LAMBDA f : f.id = flow_id)
    IN IF hits = << >> THEN NoFlow ELSE hits[1]

\* FlowDB.get_flow_edges: the edges stored for the flow, in store order.
get_flow_edges(flow_id) == get_flow_by_id(flow_id).edges

\* "for node in flow.flowNodes: if node.id == node_id: ...; break"
FindNode(flow, node_id) ==
    IF \E i \in 1..Len(flow.flowNodes) : flow.flowNodes[i].id = node_id
    THEN flow.flowNodes[CHOOSE i \in 1..Len(flow.flowNodes) :
            /\ flow.flowNodes[i].id = node_id
            /\ \A j \in 1..(i - 1) : flow.flowNodes[j].id # node_id]
    ELSE NoNode

\* "for edge in edges: if edge.source_node_id == source: next = target; break"
FirstEdgeTarget(edges, source) ==
    IF \E i \in 1..Len(edges) : edges[i].source_node_id = source
    THEN edges[CHOOSE i \in 1..Len(edges) :
            /\ edges[i].source_node_id = source
            /\ \A j \in 1..(i - 1) : edges[j].source_node_id # source
         ].target_node_id
    ELSE NULL

\* The node_details registry (scripts/populate_node_details.py).
UserInputRequired(node_type) ==
    node_type \in {"question", "button_question", "list_question"}

(***************************************************************************)
(* The user and delay collections.                                         *)
(*                                                                         *)
(* One end user (one identifier, one brand) is modelled; a row records     *)
(* which user_detail field holds the identifier and the row's              *)
(* channel_account_id, the two things _build_user_query filters on.        *)
(* delay_node_data holds the delay node object, NoNode standing for None.  *)
(***************************************************************************)
IdentifierField(channel) ==
    CASE channel \in {"whatsapp", "sms"} -> "phone_number"
      [] channel \in {"gmail", "email"} -> "email"
      [] channel = "telegram" -> "telegram_user_id"
      [] OTHER -> "custom_identifier"

NewUser(channel, channel_account_id) ==
    [idfield |-> IdentifierField(channel),
     channel_account_id |-> channel_account_id,
     is_in_automation |-> FALSE,
     current_flow_id |-> NULL,
     current_node_id |-> NULL,
     failure_count |-> 0,
     delay_node_data |-> NoNode]

NoUser == [NewUser("none", NULL) EXCEPT !.idfield = NULL]

\* FlowDB._build_user_query: the rows the query selects.
UserMatches(row, channel, channel_account_id) ==
    /\ row.idfield = IdentifierField(channel)
    /\ channel_account_id # NULL => row.channel_account_id = channel_account_id

\* find_one: index of the first row the query selects, 0 when there is none.
FindUserIdx(rows, channel, channel_account_id) ==
    IF \E i \in 1..Len(rows) : UserMatches(rows[i], channel, channel_account_id)
    THEN CHOOSE i \in 1..Len(rows) :
            /\ UserMatches(rows[i], channel, channel_account_id)
            /\ \A j \in 1..(i - 1) :
                  ~UserMatches(rows[j], channel, channel_account_id)
    ELSE 0

\* FlowDB.get_user_data
get_user_data(rows, channel, channel_account_id) ==
    LET i == FindUserIdx(rows, channel, channel_account_id)
    IN IF i = 0 THEN NoUser ELSE rows[i]

\* update_user_automation_state as it would be if a None current_node_id
\* were written to the row like any other value.
update_user_automation_state_writing_none(rows, channel, channel_account_id, is_in_automation, current_flow_id, current_node_id, delay_node_data) ==
    LET i == FindUserIdx(rows, channel, channel_account_id)
    IN IF i = 0 THEN rows
       ELSE [rows EXCEPT ![i] =
               [@ EXCEPT
                  !.is_in_automation = is_in_automation,
                  !.current_flow_id =
                      IF current_flow_id # NULL THEN current_flow_id ELSE @,
                  !.current_node_id = current_node_id,
                  !.channel_account_id =
                      IF channel_account_id # NULL
                      THEN channel_account_id ELSE @,
                  !.delay_node_data =
                      IF delay_node_data.id # NULL THEN delay_node_data
                      ELSE IF ~is_in_automation THEN NoNode
                      ELSE @]]

\* FlowDB.update_user_automation_state: a field is written only when the
\* argument is not None; delay_node_data is written when given, and cleared
\* only when is_in_automation is false.
update_user_automation_state(rows, channel, channel_account_id, is_in_automation, current_flow_id, current_node_id, delay_node_data) ==
    LET i == FindUserIdx(rows, channel, channel_account_id)
    IN IF i = 0 THEN rows
       ELSE [rows EXCEPT ![i] =
               [@ EXCEPT
                  !.is_in_automation = is_in_automation,
                  !.current_flow_id =
                      IF current_flow_id # NULL THEN current_flow_id ELSE @,
                  !.current_node_id =
                      IF current_node_id # NULL THEN current_node_id ELSE @,
                  !.channel_account_id =
                      IF channel_account_id # NULL
                      THEN channel_account_id ELSE @,
                  !.delay_node_data =
                      IF delay_node_data.id # NULL THEN delay_node_data
                      ELSE IF ~is_in_automation THEN NoNode
                      ELSE @]]

\* FlowDB.update_validation_state: re-reads the row; increments the count
\* on failure, resets it on success.
update_validation_state(rows, channel, channel_account_id, validation_failed) ==
    LET i == FindUserIdx(rows, channel, channel_account_id)
    IN IF i = 0 THEN rows
       ELSE [rows EXCEPT ![i] =
               [@ EXCEPT
                  !.failure_count =
                      IF validation_failed THEN @ + 1 ELSE 0,
                  !.channel_account_id =
                      IF channel_account_id # NULL
                      THEN channel_account_id ELSE @]]

\* The write as it would be if it inserted only and left a stored value.
save_or_update_flow_variable_once(context, variable_name, variable_value) ==
    [n \in DOMAIN context \cup {variable_name} |->
        IF n \in DOMAIN context THEN context[n] ELSE variable_value]

\* FlowDB.save_or_update_flow_variable: upsert of one captured variable.
save_or_update_flow_variable(context, variable_name, variable_value) ==
    [n \in DOMAIN context \cup {variable_name} |->
        IF n = variable_name THEN variable_value ELSE context[n]]

\* context_dict.get(name): the captured value, None when there is none.
ContextGet(context, name) ==
    IF name \in DOMAIN context THEN context[name] ELSE << >>

\* The element of a one-element set.  { e(x) : x \in {v} } computes v once
\* and e from that value; it is how a handler's intermediate result is
\* held in a local variable.
The(set) == CHOOSE x \in set : TRUE

(***************************************************************************)
(* The working state of one handler run: the collections it reads and      *)
(* writes, the outbound dispatches and transaction rows it produced, and   *)
(* the outcome of the outbound RPCs (fail = k: the k-th dispatch of the    *)
(* run fails or times out; 0: none does).  audit is the sequence of status *)
(* values written to the WebhookMessage row of the event, invoked tells    *)
(* whether Intake handed the event to a downstream service and             *)
(* audit_at_call what the row held at that moment.  wflow is the flow the  *)
(* walker was last called for; wsource and wtarget are the source id the   *)
(* first walker call of the run looked up among the edges and the target   *)
(* it found.                                                               *)
(***************************************************************************)
NoPV == [kind |-> "none", id |-> NULL, wait_time_seconds |-> 0]

Work(rows, drows, context, time, fail) ==
    [users |-> rows, delays |-> drows, ctx |-> context, now |-> time,
     fail |-> fail,
     sent |-> << >>, txns |-> << >>, wcalls |-> 0, werr |-> FALSE,
     vstatus |-> "none", wstatus |-> "none", wnext |-> NULL, wflow |-> NULL,
     wsource |-> NULL, wtarget |-> NULL,
     terminal |-> NULL, delay_reached |-> NULL, path |-> "none",
     delays_before |-> Len(drows), delays0 |-> drows,
     audit |-> << >>, invoked |-> FALSE, audit_at_call |-> << >>]

\* The call as it would be if every request were posted twice.
call_node_process_api_twice(S, current_node_id, next_node_id, fallback_message, is_validation_error) ==
    IF S.fail = 1
    THEN [S |-> [S EXCEPT !.fail = 0], status |-> "error"]
    ELSE [S |-> [S EXCEPT
                   !.fail = IF @ > 1 THEN @ - 1 ELSE 0,
                   !.sent = @ \o
                       << [current_node_id |-> current_node_id,
                           next_node_id |-> next_node_id,
                           fallback_message |-> fallback_message,
                           is_validation_error |-> is_validation_error],
                          [current_node_id |-> current_node_id,
                           next_node_id |-> next_node_id,
                           fallback_message |-> fallback_message,
                           is_validation_error |-> is_validation_error] >>],
          status |-> "success"]

\* WhatsAppFlowService.call_node_process_api: POST of a ProcessNodeRequest;
\* a non-200 reply, a timeout or any exception gives status error.
call_node_process_api(S, current_node_id, next_node_id, fallback_message, is_validation_error) ==
    IF S.fail = 1
    THEN [S |-> [S EXCEPT !.fail = 0], status |-> "error"]
    ELSE [S |-> [S EXCEPT
                   !.fail = IF @ > 1 THEN @ - 1 ELSE 0,
                   !.sent = Append(@,
                       [current_node_id |-> current_node_id,
                        next_node_id |-> next_node_id,
                        fallback_message |-> fallback_message,
                        is_validation_error |-> is_validation_error])],
          status |-> "success"]

\* UserTransactionService.process_node_transaction: one appended row.
process_node_transaction(S, node_id) ==
    [S EXCEPT !.txns = Append(@, node_id)]

(***************************************************************************)
(* Internal node processor.                                                *)
(***************************************************************************)
IsDigits(t) ==
    /\ Len(t) > 0
    /\ \A i \in 1..Len(t) : t[i] \in {"0", "1", "2", "3"}

RECURSIVE NumOf(_)
NumOf(t) ==
    IF Len(t) = 0 THEN 0
    ELSE 10 * NumOf(SubSeq(t, 1, Len(t) - 1)) + IntOfStr(t[Len(t)])

\* The evaluation as it would be if NotContains looked for the captured
\* value in the condition value and NotEqual compared the texts as they are.
ConditionMet_loose(context, condition) ==
    LET v == condition.variable
        with_at == IF Len(v) > 0 /\ v[1] = "@" THEN v ELSE <<"@">> \o v
        without_at == IF Len(v) > 0 /\ v[1] = "@" THEN Tail(v) ELSE v
        actual == IF ContextGet(context, with_at) # << >>
                  THEN ContextGet(context, with_at)
                  ELSE ContextGet(context, without_at)
        expected == condition.value
        t == condition.flowConditionType
    IN CASE t = "Equal" -> Lower(actual) = Lower(expected)
         [] t = "NotEqual" -> actual # expected
         [] t = "Contains" -> ContainsIgnoreCase(expected, actual)
         [] t = "NotContains" -> ~ContainsIgnoreCase(actual, expected)
         [] OTHER -> FALSE

\* One entry of flowNodeConditions against the captured variables.
ConditionMet(context, condition) ==
    LET v == condition.variable
        with_at == IF Len(v) > 0 /\ v[1] = "@" THEN v ELSE <<"@">> \o v
        without_at == IF Len(v) > 0 /\ v[1] = "@" THEN Tail(v) ELSE v
        actual == IF ContextGet(context, with_at) # << >>
                  THEN ContextGet(context, with_at)
                  ELSE ContextGet(context, without_at)
        expected == condition.value
        t == condition.flowConditionType
    IN CASE t = "Equal" -> Lower(actual) = Lower(expected)
         [] t = "NotEqual" -> Lower(actual) # Lower(expected)
         [] t = "Contains" -> ContainsIgnoreCase(expected, actual)
         [] t = "NotContains" -> ~ContainsIgnoreCase(expected, actual)
         [] t = "GreaterThan" ->
              IsDigits(actual) /\ IsDigits(expected)
              /\ NumOf(actual) > NumOf(expected)
         [] t = "LessThan" ->
              IsDigits(actual) /\ IsDigits(expected)
              /\ NumOf(actual) < NumOf(expected)
         [] OTHER -> FALSE

\* The branch marker a selector id contains ("__true" in item_id, ...),
\* tabulated for the selector ids of the flow store; "__interrupted" is not
\* a substring of an id ending in "__not_interrupted".
MarkerIn(item_id) ==
    CASE item_id = "C__true" -> "__true"
      [] item_id = "C__false" -> "__false"
      [] item_id \in {"D1__interrupted", "D2__interrupted"} -> "__interrupted"
      [] item_id \in {"D1__not_interrupted", "D2__not_interrupted"} ->
            "__not_interrupted"
      [] OTHER -> NULL

\* "for item in result: if marker in item.id: id = item.id" (last hit wins)
LastResultId(results, marker) ==
    LET hits == {i \in 1..Len(results) : MarkerIn(results[i]) = marker}
    IN IF hits = {} THEN NULL
       ELSE results[CHOOSE i \in hits : \A j \in hits : j <= i]

\* the same loop with a break (first hit wins)
FirstResultId(results, marker) ==
    LET hits == {i \in 1..Len(results) : MarkerIn(results[i]) = marker}
    IN IF hits = {} THEN NULL
       ELSE results[CHOOSE i \in hits : \A j \in hits : i <= j]

\* "for condition in flow_node_conditions: ... condition_results.append"
ConditionResults(context, conds) ==
    [i \in 1..Len(conds) |-> ConditionMet(context, conds[i])]

\* The node as it would be if the operator None were combined like OR.
process_condition_node_anyof(context, node_data) ==
    LET conds == node_data.flowNodeConditions
        met == ConditionResults(context, conds)
        op == node_data.conditionOperator
        final == IF op = "AND"
                 THEN \A i \in 1..Len(conds) : met[i]
                 ELSE IF op \in {"OR", "None"}
                 THEN \E i \in 1..Len(conds) : met[i]
                 ELSE FALSE
        value == IF final THEN LastResultId(node_data.results, "__true")
                 ELSE LastResultId(node_data.results, "__false")
    IN IF Len(conds) = 0 \/ value = NULL
       THEN [status |-> "error", pv |-> NoPV]
       ELSE [status |-> "success",
             pv |-> [kind |-> "branch", id |-> value, wait_time_seconds |-> 0]]

\* ProcessInternalNodeService._process_condition_node
process_condition_node(context, node_data) ==
    LET conds == node_data.flowNodeConditions
        met == ConditionResults(context, conds)
        op == node_data.conditionOperator
        final == IF op \in {"AND", "None"}
                 THEN \A i \in 1..Len(conds) : met[i]
                 ELSE IF op = "OR" THEN \E i \in 1..Len(conds) : met[i]
                 ELSE FALSE
        value == IF final THEN LastResultId(node_data.results, "__true")
                 ELSE LastResultId(node_data.results, "__false")
    IN IF Len(conds) = 0 \/ value = NULL
       THEN [status |-> "error", pv |-> NoPV]
       ELSE [status |-> "success",
             pv |-> [kind |-> "branch", id |-> value, wait_time_seconds |-> 0]]

\* Seconds of a (delayDuration, delayUnit) pair as _process_delay_node
\* computes them: the duration itself unless the unit is minutes, hours, days.
WaitTimeSeconds(delay_duration, delay_unit) ==
    CASE delay_unit = "minutes" -> delay_duration * 60
      [] delay_unit = "hours" -> delay_duration * 3600
      [] delay_unit = "days" -> delay_duration * 86400
      [] OTHER -> delay_duration

\* ProcessInternalNodeService._process_delay_node
process_delay_node(node_data) ==
    [status |-> "success",
     pv |-> [kind |-> "delay", id |-> NULL,
             wait_time_seconds |->
                 WaitTimeSeconds(node_data.delayDuration, node_data.delayUnit)]]

\* ProcessInternalNodeService.process_internal_node
process_internal_node(context, node_data) ==
    IF node_data.type = "condition"
    THEN process_condition_node(context, node_data)
    ELSE IF node_data.type = "delay" THEN process_delay_node(node_data)
    ELSE [status |-> "error", pv |-> NoPV]

(***************************************************************************)
(* Reply validator.                                                        *)
(***************************************************************************)
DefaultFallback == "This is not the valid response. Please try again below"

\* "max_fallback_count = 3; if answer_validation: int(failsCount) if
\* failsCount else 3, except ValueError: 3"
FailsCount(node) ==
    IF ~node.hasValidation THEN 3
    ELSE IF node.failsCount = NULL \/ node.failsCount = "" THEN 3
    ELSE IF IsIntStr(node.failsCount) THEN IntOfStr(node.failsCount)
    ELSE 3

FallbackOf(node) ==
    IF node.hasValidation /\ node.fallback # "" THEN node.fallback
    ELSE DefaultFallback

\* ReplyValidationService.process_reply_match: id of the first expected
\* answer whose expectedInput equals the reply case-insensitively.
process_reply_match(source_node, user_reply) ==
    LET answers == source_node.expectedAnswers
        hits == {i \in 1..Len(answers) :
                    /\ answers[i].expectedInput # << >>
                    /\ EqualsIgnoreCase(answers[i].expectedInput, user_reply)}
    IN IF source_node.type \notin
              {"trigger_template", "button_question", "list_question"}
          \/ user_reply = << >> \/ hits = {}
       THEN NULL
       ELSE answers[CHOOSE i \in hits : \A j \in hits : i <= j].id

\* ReplyValidationService.handle_reply_mismatch: the first button/list node
\* of the flow with a matching expected answer, provided that answer is the
\* source of an edge.
handle_reply_mismatch(flow, user_reply, edges) ==
    LET nodes == flow.flowNodes
        Hit(i) == /\ nodes[i].type \in {"button_question", "list_question"}
                  /\ \E k \in 1..Len(nodes[i].expectedAnswers) :
                        /\ nodes[i].expectedAnswers[k].expectedInput # << >>
                        /\ EqualsIgnoreCase(
                              nodes[i].expectedAnswers[k].expectedInput,
                              user_reply)
        hits == {i \in 1..Len(nodes) : Hit(i)}
        first == CHOOSE i \in hits : \A j \in hits : i <= j
        answer_id == process_reply_match(nodes[first], user_reply)
    IN IF hits = {} THEN [status |-> "retry", matched_node_id |-> NULL]
       ELSE IF answer_id # NULL /\ FirstEdgeTarget(edges, answer_id) # NULL
       THEN [status |-> "matched_other_node",
             matched_node_id |-> nodes[first].id]
       ELSE [status |-> "retry", matched_node_id |-> NULL]

\* The answerValidation rules of a text question (types Number and Text;
\* the flow store declares no regex, Email or Phone rule).
TextValidationPassed(node, user_reply) ==
    IF ~node.hasValidation THEN TRUE
    ELSE IF node.vtype = "Number"
    THEN /\ IsDigits(user_reply)
         /\ node.minValue \notin {NULL, ""} =>
               /\ IsIntStr(node.minValue)
               /\ NumOf(user_reply) >= IntOfStr(node.minValue)
         /\ node.maxValue \notin {NULL, ""} =>
               /\ IsIntStr(node.maxValue)
               /\ NumOf(user_reply) <= IntOfStr(node.maxValue)
    ELSE IF node.vtype = "Text"
    THEN /\ (node.minValue \notin {NULL, ""} /\ IsIntStr(node.minValue)) =>
               Len(user_reply) >= IntOfStr(node.minValue)
         /\ (node.maxValue \notin {NULL, ""} /\ IsIntStr(node.maxValue)) =>
               Len(user_reply) <= IntOfStr(node.maxValue)
    ELSE TRUE

VResult(context, status, matched_answer_id, matched_node_id, fallback_message) ==
    [ctx |-> context, status |-> status,
     matched_answer_id |-> matched_answer_id,
     matched_node_id |-> matched_node_id,
     fallback_message |-> fallback_message]

\* The cap as it would be with a strict comparison.
CapOutcome_strict(current_validation_count, max_fallback_count) ==
    IF current_validation_count > max_fallback_count
    THEN "validation_exit" ELSE "mismatch_retry"

\* "if current_validation_count >= max_fallback_count: validation_exit
\*  else: mismatch_retry"
CapOutcome(current_validation_count, max_fallback_count) ==
    IF current_validation_count >= max_fallback_count
    THEN "validation_exit" ELSE "mismatch_retry"

\* The validator as it would be if it stored the reply of a text question
\* before validating it.
validate_and_match_reply_eager(context, user_reply, current_node_id, flow_id, is_text, current_validation_count) ==
    LET flow == get_flow_by_id(flow_id)
        edges == get_flow_edges(flow_id)
        current_node == FindNode(flow, current_node_id)
        stored == IF is_text /\ current_node.userInputVariable # << >>
                  THEN save_or_update_flow_variable(context,
                           current_node.userInputVariable, user_reply)
                  ELSE context
        capped == VResult(stored,
                     CapOutcome(current_validation_count,
                                FailsCount(current_node)),
                     NULL, NULL, FallbackOf(current_node))
    IN IF user_reply = << >> \/ flow.id = NULL \/ Len(edges) = 0
          \/ current_node.id = NULL
       THEN VResult(context, "error", NULL, NULL, NULL)
       ELSE IF is_text
       THEN IF ~TextValidationPassed(current_node, user_reply)
            THEN capped
            ELSE VResult(stored, "use_default_edge", NULL, NULL, NULL)
       ELSE IF process_reply_match(current_node, user_reply) # NULL
       THEN VResult(context, "matched",
                    process_reply_match(current_node, user_reply), NULL, NULL)
       ELSE IF handle_reply_mismatch(flow, user_reply, edges).status
                 = "matched_other_node"
       THEN VResult(context, "matched_other_node", NULL,
                    handle_reply_mismatch(flow, user_reply,
                                          edges).matched_node_id, NULL)
       ELSE IF current_node.type \in {"button_question", "list_question"}
       THEN capped
       ELSE VResult(context, "use_default_edge", NULL, NULL, NULL)

\* ReplyValidationService.validate_and_match_reply
validate_and_match_reply(context, user_reply, current_node_id, flow_id, is_text, current_validation_count) ==
    LET flow == get_flow_by_id(flow_id)
        edges == get_flow_edges(flow_id)
        current_node == FindNode(flow, current_node_id)
        answer_id == process_reply_match(current_node, user_reply)
        mismatch == handle_reply_mismatch(flow, user_reply, edges)
        capped == VResult(context,
                     CapOutcome(current_validation_count,
                                FailsCount(current_node)),
                     NULL, NULL, FallbackOf(current_node))
    IN IF user_reply = << >> \/ flow.id = NULL \/ Len(edges) = 0
          \/ current_node.id = NULL
       THEN VResult(context, "error", NULL, NULL, NULL)
       ELSE IF answer_id # NULL
       THEN VResult(
               IF is_text /\ current_node.userInputVariable # << >>
               THEN save_or_update_flow_variable(context,
                        current_node.userInputVariable, user_reply)
               ELSE context,
               "matched", answer_id, NULL, NULL)
       ELSE IF is_text
       THEN IF ~TextValidationPassed(current_node, user_reply)
            THEN capped
            ELSE VResult(
                    IF current_node.userInputVariable # << >>
                    THEN save_or_update_flow_variable(context,
                             current_node.userInputVariable, user_reply)
                    ELSE context,
                    "use_default_edge", NULL, NULL, NULL)
       ELSE IF mismatch.status = "matched_other_node"
       THEN VResult(context, "matched_other_node", NULL,
                    mismatch.matched_node_id, NULL)
       ELSE IF current_node.type \in {"button_question", "list_question"}
       THEN capped
       ELSE VResult(context, "use_default_edge", NULL, NULL, NULL)

(***************************************************************************)
(* Node walker.                                                            *)
(***************************************************************************)
WResult(S, status, next_node_id, pv) ==
    [S |-> S, status |-> status, next_node_id |-> next_node_id, pv |-> pv]

WError(S) == WResult([S EXCEPT !.werr = TRUE], "error", NULL, NoPV)

\* The chaining as it would be if it went on to a node of any type.
detect_and_chain_nodes_anynode(flow, current_processed_node, edges) ==
    LET target == FirstEdgeTarget(edges, current_processed_node.id)
        next_node == FindNode(flow, target)
    IN IF current_processed_node.type # "message" THEN NULL
       ELSE IF target = NULL THEN NULL
       ELSE IF next_node.id = NULL THEN NULL
       ELSE target

\* WhatsAppFlowService.detect_and_chain_nodes: the node to chain to after a
\* message node, NULL when the walker must not chain.
detect_and_chain_nodes(flow, current_processed_node, edges) ==
    LET target == FirstEdgeTarget(edges, current_processed_node.id)
        next_node == FindNode(flow, target)
    IN IF current_processed_node.type # "message" THEN NULL
       ELSE IF target = NULL THEN NULL
       ELSE IF next_node.id = NULL THEN NULL
       ELSE IF next_node.type = "message" THEN target
       ELSE NULL

\* The normalized data of an event carries no matched_answer_id (the channel
\* adapter produces user_reply only), so the edge lookup starts from
\* current_node_id.
EdgeSource(current_node_id) == current_node_id

\* STEP 6 of identify_and_process_node: the node to process.
NextNodeId(edges, is_validation_error, node_id_to_process, current_node_id) ==
    IF is_validation_error THEN node_id_to_process
    ELSE IF node_id_to_process # NULL THEN node_id_to_process
    ELSE FirstEdgeTarget(edges, EdgeSource(current_node_id))

RECURSIVE identify_and_process_node(_, _, _, _, _, _, _)
\* NodeIdentificationService.identify_and_process_node
identify_and_process_node(S0, ev, is_validation_error, fallback_message, node_id_to_process, current_node_id, flow_id) ==
    LET flow == get_flow_by_id(flow_id)
        edges == get_flow_edges(flow_id)
        next_node_id == NextNodeId(edges, is_validation_error,
                                   node_id_to_process, current_node_id)
        next_node_data == FindNode(flow, next_node_id)
        chained == detect_and_chain_nodes(flow, next_node_data, edges)
        Dispatch(S) == IF ev.channel = "whatsapp"
                       THEN call_node_process_api(S, current_node_id,
                                next_node_id, fallback_message,
                                is_validation_error)
                       ELSE [S |-> S, status |-> "success"]
    IN The({
       IF flow.id = NULL \/ Len(edges) = 0 THEN WError(S)
       ELSE IF next_node_id = NULL
       THEN IF ~is_validation_error THEN WError(S)
            ELSE IF ev.channel = "whatsapp"
            THEN The({ IF exit_call.status # "success"
                       THEN WError(exit_call.S)
                       ELSE WResult(exit_call.S, "success", NULL, NoPV)
                       : exit_call \in { call_node_process_api(S, NULL, NULL,
                                             fallback_message, TRUE) } })
            ELSE WResult(S, "success", NULL, NoPV)
       ELSE IF next_node_data.id = NULL THEN WError(S)
       ELSE IF next_node_data.type \in {"condition", "delay"}
       THEN The({ IF internal.status = "success"
                  THEN WResult(process_node_transaction(S, next_node_id),
                               "success", next_node_id, internal.pv)
                  ELSE WError(S)
                  : internal \in { process_internal_node(S.ctx,
                                                         next_node_data) } })
       ELSE The({
            IF node_call.status # "success" THEN WError(node_call.S)
            ELSE IF next_node_data.type = "message" /\ ev.channel = "whatsapp"
                    /\ chained # NULL
            THEN identify_and_process_node(node_call.S, ev, FALSE, NULL, NULL,
                                           chained, flow_id)
            ELSE WResult(process_node_transaction(node_call.S, next_node_id),
                         "success", next_node_id, NoPV)
            : node_call \in { Dispatch(S) } })
       : S \in { IF S0.wcalls = 0 /\ ~is_validation_error
                    /\ node_id_to_process = NULL
                    /\ flow.id # NULL /\ Len(edges) # 0
                 THEN [S0 EXCEPT !.wcalls = @ + 1, !.wflow = flow_id,
                                 !.wsource = EdgeSource(current_node_id),
                                 !.wtarget = next_node_id]
                 ELSE [S0 EXCEPT !.wcalls = @ + 1, !.wflow = flow_id] } })

(***************************************************************************)
(* Orchestrator: delay bookkeeping and post-processing.                    *)
(***************************************************************************)
\* The recomputation as it would be if it ignored the unit.
DelayRowWait_plain(delay_duration, delay_unit) == delay_duration

\* wait_time_seconds as _update_delay_node_state recomputes it from the
\* stored node (which carries no wait_time_seconds of its own).
DelayRowWait(delay_duration, delay_unit) ==
    CASE delay_unit = "seconds" -> delay_duration
      [] delay_unit = "minutes" -> delay_duration * 60
      [] delay_unit = "hours" -> delay_duration * 3600
      [] delay_unit = "days" -> delay_duration * 86400
      [] OTHER -> 0

\* The Delay row as it would be if it were saved already processed.
DelayRow_processed(channel, channel_account_id, flow_id, node_data, time) ==
    [channel |-> channel, channel_account_id |-> channel_account_id,
     flow_id |-> flow_id, delay_node_id |-> node_data.id,
     delay_node_data |-> node_data,
     wait_time_seconds |->
         DelayRowWait(node_data.delayDuration, node_data.delayUnit),
     delay_started_at |-> time,
     delay_completes_at |->
         time + DelayRowWait(node_data.delayDuration, node_data.delayUnit),
     processed |-> TRUE]

DelayRow(channel, channel_account_id, flow_id, node_data, time) ==
    [channel |-> channel, channel_account_id |-> channel_account_id,
     flow_id |-> flow_id, delay_node_id |-> node_data.id,
     delay_node_data |-> node_data,
     wait_time_seconds |->
         DelayRowWait(node_data.delayDuration, node_data.delayUnit),
     delay_started_at |-> time,
     delay_completes_at |->
         time + DelayRowWait(node_data.delayDuration, node_data.delayUnit),
     processed |-> FALSE]

\* The validation write that precedes a state write: nothing without a
\* validation result, an increment on mismatch_retry, a reset otherwise.
ApplyValidation(rows, channel, channel_account_id, validation_result) ==
    IF validation_result = "none" THEN rows
    ELSE update_validation_state(rows, channel, channel_account_id,
                                 validation_result = "mismatch_retry")

\* UserStateService._update_delay_node_state
update_delay_node_state(S0, channel, flow_id, channel_account_id, next_node_id, next_node_data, validation_result, clear_delay_data) ==
    The({
    LET rows1 == ApplyValidation(S.users, channel, channel_account_id,
                                 validation_result)
        current_user == get_user_data(rows1, channel, channel_account_id)
        exited == /\ clear_delay_data
                  /\ current_user.idfield # NULL
                  /\ ~current_user.is_in_automation
        rows2 == update_user_automation_state(rows1, channel,
                    channel_account_id,
                    ~exited,
                    IF exited THEN NULL ELSE flow_id,
                    IF clear_delay_data THEN NULL ELSE next_node_id,
                    IF clear_delay_data THEN NoNode ELSE next_node_data)
    IN IF clear_delay_data
       THEN [S EXCEPT !.users = rows2]
       ELSE [S EXCEPT
               !.users = rows2,
               !.delays = IF next_node_data.id # NULL
                          THEN Append(@, DelayRow(channel, channel_account_id,
                                         flow_id, next_node_data, S.now))
                          ELSE @,
               !.delay_reached = next_node_id]
    : S \in { S0 } })

\* "for edge in edges: if edge.source_node_id == next_node_id: not terminal"
IsTerminal(edges, node_id) ==
    \A i \in 1..Len(edges) : edges[i].source_node_id # node_id

\* The validation result handed on when post-processing walks on from a
\* non-input node: the condition branch passes it through, the branch for
\* other non-input nodes passes None.
CarriedValidation(via_condition, validation_result) ==
    IF via_condition THEN validation_result ELSE "none"

RECURSIVE handle_successful_node_processing(_, _, _, _, _, _, _)
\* UserStateService._handle_successful_node_processing
handle_successful_node_processing(S0, ev, next_node_id, flow_id, channel_account_id, validation_result, processed_value) ==
    LET flow == get_flow_by_id(flow_id)
        next_node_data == FindNode(flow, next_node_id)
        next_node_type == next_node_data.type
        edges == get_flow_edges(flow_id)
        via_condition == /\ next_node_type = "condition"
                         /\ processed_value.kind # "none"
    IN The({
       IF flow.id = NULL \/ next_node_data.id = NULL THEN S
       ELSE IF next_node_type = "delay" /\ processed_value.kind # "none"
       THEN update_delay_node_state(S, ev.channel, flow_id,
                channel_account_id, next_node_id, next_node_data,
                validation_result, FALSE)
       ELSE IF \/ via_condition
               \/ /\ ~(UserInputRequired(next_node_type)
                       \/ next_node_type = "delay")
                  /\ ~IsTerminal(edges, next_node_id)
       THEN The({
            IF onward.status = "success" /\ onward.next_node_id # NULL
            THEN handle_successful_node_processing(onward.S, ev,
                     onward.next_node_id, flow_id, channel_account_id,
                     CarriedValidation(via_condition, validation_result),
                     onward.pv)
            ELSE onward.S
            : onward \in { identify_and_process_node(S, ev, FALSE, NULL, NULL,
                               IF via_condition THEN processed_value.id
                               ELSE next_node_id,
                               flow_id) } })
       ELSE IF UserInputRequired(next_node_type) \/ next_node_type = "delay"
       THEN [S EXCEPT !.users =
                update_user_automation_state(
                    ApplyValidation(S.users, ev.channel, channel_account_id,
                                    validation_result),
                    ev.channel, channel_account_id, TRUE, flow_id,
                    next_node_id, NoNode)]
       ELSE [S EXCEPT
               !.users = update_user_automation_state(S.users, ev.channel,
                             channel_account_id, FALSE, NULL, NULL, NoNode),
               !.terminal = next_node_id]
       : S \in { S0 } })

(***************************************************************************)
(* Trigger matcher.                                                        *)
(***************************************************************************)
\* FlowDB.get_flow_triggers_by_brand_id: triggers of the published flows.
get_flow_triggers_by_brand_id ==
    SelectSeq(flow_triggers,
              LAMBDA t : get_flow_by_id(t.flow_id).status = "published")

\* The test as it would be if a keyword trigger took any message type.
TriggerMatches_anytype(trigger, message_type, text_content) ==
    IF trigger.trigger_type = "keyword"
    THEN \E k \in 1..Len(trigger.trigger_values) :
            ContainsIgnoreCase(trigger.trigger_values[k], text_content)
    ELSE IF trigger.trigger_type = "template"
    THEN \E k \in 1..Len(trigger.trigger_values) :
            EqualsIgnoreCase(trigger.trigger_values[k], text_content)
    ELSE FALSE

\* "if trigger.trigger_type == ...": the test the loop makes of one trigger.
TriggerMatches(trigger, message_type, text_content) ==
    IF trigger.trigger_type = "keyword"
    THEN /\ message_type = "text"
         /\ \E k \in 1..Len(trigger.trigger_values) :
               ContainsIgnoreCase(trigger.trigger_values[k], text_content)
    ELSE IF trigger.trigger_type = "template"
    THEN \E k \in 1..Len(trigger.trigger_values) :
            EqualsIgnoreCase(trigger.trigger_values[k], text_content)
    ELSE FALSE

NoHit == [flow_id |-> NULL, node_id |-> NULL]

RECURSIVE CheckEachTrigger_last(_, _, _)
\* The loop as it would be if it went on after a match and returned the
\* last trigger that matches.
CheckEachTrigger_last(triggers, message_type, text_content) ==
    IF triggers = << >> THEN NoHit
    ELSE LET rest == CheckEachTrigger_last(Tail(triggers), message_type,
                                           text_content)
         IN IF rest # NoHit THEN rest
            ELSE IF TriggerMatches(Head(triggers), message_type, text_content)
            THEN [flow_id |-> Head(triggers).flow_id,
                  node_id |-> Head(triggers).node_id]
            ELSE NoHit

RECURSIVE CheckEachTrigger(_, _, _)
\* "for trigger in triggers": the loop returns at the first trigger that
\* matches and falls through to "return None" when none does.
CheckEachTrigger(triggers, message_type, text_content) ==
    IF triggers = << >> THEN NoHit
    ELSE IF TriggerMatches(Head(triggers), message_type, text_content)
    THEN [flow_id |-> Head(triggers).flow_id,
          node_id |-> Head(triggers).node_id]
    ELSE CheckEachTrigger(Tail(triggers), message_type, text_content)

\* TriggerIdentificationService.check_and_get_flow_for_trigger from the
\* trigger list get_flow_triggers_by_brand_id returned onwards: NoHit when
\* the event has no text or no trigger matches.
MatchTriggers(triggers, message_type, user_reply) ==
    LET text_content == Strip(user_reply)
    IN IF text_content = << >> \/ Len(triggers) = 0 THEN NoHit
       ELSE CheckEachTrigger(triggers, message_type, text_content)

\* TriggerIdentificationService.check_and_get_flow_for_trigger
check_and_get_flow_for_trigger(message_type, user_reply) ==
    MatchTriggers(get_flow_triggers_by_brand_id, message_type, user_reply)

\* TriggerIdentificationService.identify_and_initiate_trigger_flow from the
\* result of the matcher onwards: the flow is read again and must be
\* published.
VerifyTrigger(hit) ==
    LET flow == get_flow_by_id(hit.flow_id)
    IN IF hit.flow_id = NULL
       THEN [status |-> "no_trigger", flow_id |-> NULL, node_id |-> NULL]
       ELSE IF flow.id = NULL
       THEN [status |-> "error", flow_id |-> hit.flow_id,
             node_id |-> hit.node_id]
       ELSE IF flow.status # "published"
       THEN [status |-> "no_trigger", flow_id |-> hit.flow_id,
             node_id |-> hit.node_id]
       ELSE [status |-> "triggered", flow_id |-> hit.flow_id,
             node_id |-> hit.node_id]

\* TriggerIdentificationService.identify_and_initiate_trigger_flow
identify_and_initiate_trigger_flow(ev) ==
    VerifyTrigger(check_and_get_flow_for_trigger(ev.message_type,
                                                 ev.user_reply))

(***************************************************************************)
(* Orchestrator: the per-event state machine.                              *)
(***************************************************************************)
\* The tail as it would be if a mismatch were counted although the walker
\* failed.
AfterWalker_counting(w, ev, flow_id, channel_account_id, validation_result) ==
    The({
    IF w.status = "success" /\ w.next_node_id # NULL
    THEN handle_successful_node_processing(S1, ev, w.next_node_id, flow_id,
             channel_account_id, validation_result, w.pv)
    ELSE [S1 EXCEPT !.users = ApplyValidation(@, ev.channel,
                                 channel_account_id, validation_result)]
    : S1 \in { [w.S EXCEPT !.wstatus = w.status, !.wnext = w.next_node_id] } })

\* The tail every branch shares: post-processing runs only after a walker
\* success that names a next node.
AfterWalker(w, ev, flow_id, channel_account_id, validation_result) ==
    The({
    IF w.status = "success" /\ w.next_node_id # NULL
    THEN handle_successful_node_processing(S1, ev, w.next_node_id, flow_id,
             channel_account_id, validation_result, w.pv)
    ELSE S1
    : S1 \in { [w.S EXCEPT !.wstatus = w.status, !.wnext = w.next_node_id] } })

\* The start of a flow as it would be without the post-processing of the
\* walker's result.
InitiateFlow_unrecorded(S0, ev, existing_user, t) ==
    The({
       IF t.status = "triggered" /\ t.flow_id # NULL /\ t.node_id # NULL
       THEN The({ [w.S EXCEPT !.wstatus = w.status, !.wnext = w.next_node_id]
                  : w \in { identify_and_process_node(S, ev, FALSE, NULL,
                                NULL, t.node_id, t.flow_id) } })
       ELSE S
       : S \in { [S0 EXCEPT !.path = "trigger"] } })

\* UserStateService._check_triggers_and_initiate_flow from the result t of
\* the trigger identification onwards.
InitiateFlow(S0, ev, existing_user, t) ==
    LET final_channel_account_id ==
            IF existing_user.idfield # NULL
               /\ existing_user.channel_account_id # NULL
            THEN existing_user.channel_account_id
            ELSE ev.channel_account_id
    IN The({
       IF t.status = "triggered" /\ t.flow_id # NULL /\ t.node_id # NULL
       THEN The({ AfterWalker(w, ev, t.flow_id, final_channel_account_id,
                              "none")
                  : w \in { identify_and_process_node(S, ev, FALSE, NULL,
                                NULL, t.node_id, t.flow_id) } })
       ELSE S
       : S \in { [S0 EXCEPT !.path = "trigger"] } })

\* UserStateService._check_triggers_and_initiate_flow
check_triggers_and_initiate_flow(S0, ev, existing_user) ==
    InitiateFlow(S0, ev, existing_user, identify_and_initiate_trigger_flow(ev))

\* The Delay row _handle_delay_interrupt cancels: the first unprocessed row
\* of the user's flow and delay node.
CancelDelay(drows, flow_id, delay_node_id) ==
    LET hits == {i \in 1..Len(drows) :
                    /\ drows[i].flow_id = flow_id
                    /\ drows[i].delay_node_id = delay_node_id
                    /\ ~drows[i].processed}
        first == CHOOSE i \in hits : \A j \in hits : i <= j
    IN IF delay_node_id = NULL \/ hits = {} THEN drows
       ELSE [drows EXCEPT ![first].processed = TRUE]

\* _handle_delay_interrupt as it would be if it took the interrupted path
\* whatever delayInterrupt says.
handle_delay_interrupt_always(S0, ev, existing_user) ==
    LET delay_node_data == existing_user.delay_node_data
        interrupted_node_id ==
            LastResultId(delay_node_data.results, "__interrupted")
    IN The({
       IF Len(delay_node_data.results) = 0 THEN S
       ELSE IF interrupted_node_id = NULL THEN S
       ELSE The({
            IF w.status = "success" /\ w.next_node_id # NULL
            THEN update_delay_node_state(
                     AfterWalker(w, ev, existing_user.current_flow_id,
                                 ev.channel_account_id, "none"),
                     ev.channel, existing_user.current_flow_id,
                     ev.channel_account_id, NULL, NoNode, "none", TRUE)
            ELSE AfterWalker(w, ev, existing_user.current_flow_id,
                             ev.channel_account_id, "none")
            : w \in { identify_and_process_node(
                          [S EXCEPT !.delays =
                              CancelDelay(@, existing_user.current_flow_id,
                                          delay_node_data.id)],
                          ev, FALSE, NULL, NULL, interrupted_node_id,
                          existing_user.current_flow_id) } })
       : S \in { [S0 EXCEPT !.path = "delay_reply"] } })

\* UserStateService._handle_delay_interrupt
handle_delay_interrupt(S0, ev, existing_user) ==
    LET delay_node_data == existing_user.delay_node_data
        interrupted_node_id ==
            LastResultId(delay_node_data.results, "__interrupted")
    IN The({
       IF Len(delay_node_data.results) = 0 THEN S
       ELSE IF ~delay_node_data.delayInterrupt
       THEN [S EXCEPT !.path = "delay_ignored"]
       ELSE IF interrupted_node_id = NULL THEN S
       ELSE The({
            IF w.status = "success" /\ w.next_node_id # NULL
            THEN update_delay_node_state(
                     AfterWalker(w, ev, existing_user.current_flow_id,
                                 ev.channel_account_id, "none"),
                     ev.channel, existing_user.current_flow_id,
                     ev.channel_account_id, NULL, NoNode, "none", TRUE)
            ELSE AfterWalker(w, ev, existing_user.current_flow_id,
                             ev.channel_account_id, "none")
            : w \in { identify_and_process_node(
                          [S EXCEPT !.delays =
                              CancelDelay(@, existing_user.current_flow_id,
                                          delay_node_data.id)],
                          ev, FALSE, NULL, NULL, interrupted_node_id,
                          existing_user.current_flow_id) } })
       : S \in { [S0 EXCEPT !.path = "delay_reply"] } })

\* The validation_exit case as it would be if it reset the counter.
ValidationExit_resetting(S, ev, existing_user, fallback_message) ==
    The({ [exit_walk.S EXCEPT
              !.wstatus = exit_walk.status,
              !.wnext = exit_walk.next_node_id,
              !.users = update_validation_state(@, ev.channel,
                            existing_user.channel_account_id, FALSE)]
          : exit_walk \in { identify_and_process_node(S, ev, TRUE,
                                fallback_message, NULL,
                                existing_user.current_node_id,
                                existing_user.current_flow_id) } })

\* The validation_exit case of
\* _process_validation_and_get_node_service_params: the walker sends the
\* fallback message and the handler returns.
ValidationExit(S, ev, existing_user, fallback_message) ==
    The({ [exit_walk.S EXCEPT !.wstatus = exit_walk.status,
                              !.wnext = exit_walk.next_node_id]
          : exit_walk \in { identify_and_process_node(S, ev, TRUE,
                                fallback_message, NULL,
                                existing_user.current_node_id,
                                existing_user.current_flow_id) } })

\* UserStateService._process_validation_and_get_node_service_params followed
\* by the walker call and the post-processing of the reply branch.
HandleValidatedReply(S0, ev, existing_user, is_text) ==
    The({
    LET S == [S0 EXCEPT !.ctx = v.ctx, !.vstatus = v.status]
        is_validation_error == v.status = "mismatch_retry"
        fallback_message == IF v.status = "mismatch_retry"
                            THEN v.fallback_message ELSE NULL
        node_id_to_process ==
            CASE v.status = "matched_other_node" -> v.matched_node_id
              [] v.status = "mismatch_retry" -> existing_user.current_node_id
              [] OTHER -> NULL
        current_node_id_for_service ==
            IF v.status = "matched" THEN v.matched_answer_id
            ELSE existing_user.current_node_id
    IN IF v.status = "validation_exit"
       THEN ValidationExit(S, ev, existing_user, v.fallback_message)
       ELSE IF current_node_id_for_service = NULL THEN S
       ELSE The({ AfterWalker(w, ev, existing_user.current_flow_id,
                              existing_user.channel_account_id, v.status)
                  : w \in { identify_and_process_node(S, ev,
                                is_validation_error, fallback_message,
                                node_id_to_process,
                                current_node_id_for_service,
                                existing_user.current_flow_id) } })
    : v \in { validate_and_match_reply(S0.ctx, ev.user_reply,
                  existing_user.current_node_id,
                  existing_user.current_flow_id, is_text,
                  existing_user.failure_count) } })

\* The branch as it would be if it took the __interrupted selector.
HandleDelayComplete_interrupted(S0, ev, existing_user) ==
    LET delay_result == existing_user.delay_node_data.results
        current_node_id_for_delay ==
            FirstResultId(delay_result, "__interrupted")
    IN The({
       IF Len(delay_result) = 0 \/ current_node_id_for_delay = NULL
       THEN [S EXCEPT !.path = "delay_dropped"]
       ELSE The({
            IF w.status = "success" /\ w.next_node_id # NULL
            THEN update_delay_node_state(
                     AfterWalker(w, ev, existing_user.current_flow_id,
                                 existing_user.channel_account_id, "none"),
                     ev.channel, existing_user.current_flow_id,
                     existing_user.channel_account_id, NULL, NoNode, "none",
                     TRUE)
            ELSE AfterWalker(w, ev, existing_user.current_flow_id,
                             existing_user.channel_account_id, "none")
            : w \in { identify_and_process_node(S, ev, FALSE, NULL, NULL,
                          current_node_id_for_delay,
                          existing_user.current_flow_id) } })
       : S \in { [S0 EXCEPT !.path = "delay_complete"] } })

\* The delay_complete branch of check_and_process_user_with_flow.
HandleDelayComplete(S0, ev, existing_user) ==
    LET delay_result == existing_user.delay_node_data.results
        current_node_id_for_delay ==
            FirstResultId(delay_result, "__not_interrupted")
    IN The({
       IF Len(delay_result) = 0 \/ current_node_id_for_delay = NULL
       THEN [S EXCEPT !.path = "delay_dropped"]
       ELSE The({
            IF w.status = "success" /\ w.next_node_id # NULL
            THEN update_delay_node_state(
                     AfterWalker(w, ev, existing_user.current_flow_id,
                                 existing_user.channel_account_id, "none"),
                     ev.channel, existing_user.current_flow_id,
                     existing_user.channel_account_id, NULL, NoNode, "none",
                     TRUE)
            ELSE AfterWalker(w, ev, existing_user.current_flow_id,
                             existing_user.channel_account_id, "none")
            : w \in { identify_and_process_node(S, ev, FALSE, NULL, NULL,
                          current_node_id_for_delay,
                          existing_user.current_flow_id) } })
       : S \in { [S0 EXCEPT !.path = "delay_complete"] } })

\* The regular-reply branch of check_and_process_user_with_flow.
HandleReply(S0, ev, existing_user) ==
    LET flow == get_flow_by_id(existing_user.current_flow_id)
        current_node == FindNode(flow, existing_user.current_node_id)
    IN The({
       IF ev.user_reply = << >> \/ flow.id = NULL \/ current_node.id = NULL
       THEN S
       ELSE IF UserInputRequired(current_node.type)
       THEN HandleValidatedReply(S, ev, existing_user,
                                 current_node.type = "question")
       ELSE The({ AfterWalker(w, ev, flow.id,
                              existing_user.channel_account_id, "none")
                  : w \in { identify_and_process_node(S, ev, FALSE, NULL,
                                NULL, existing_user.current_node_id,
                                flow.id) } })
       : S \in { [S0 EXCEPT !.path = "reply"] } })

\* check_and_process_user_with_flow as it would be without the check that
\* drops a delay_complete event of a user who holds no delay.
ProcessWith_nodrop(S0, ev, existing_user) ==
    The({
    IF existing_user.idfield = NULL
    THEN LET saved_user == NewUser(ev.channel, ev.channel_account_id)
         IN check_triggers_and_initiate_flow(
                [S EXCEPT !.users = Append(@, saved_user)], ev, saved_user)
    ELSE IF /\ existing_user.is_in_automation
            /\ existing_user.current_flow_id # NULL
            /\ \/ existing_user.current_node_id # NULL
               \/ ev.message_type = "delay_complete"
    THEN IF /\ existing_user.delay_node_data.id # NULL
            /\ ev.message_type # "delay_complete"
         THEN handle_delay_interrupt(S, ev, existing_user)
         ELSE IF ev.message_type = "delay_complete"
         THEN HandleDelayComplete(S, ev, existing_user)
         ELSE HandleReply(S, ev, existing_user)
    ELSE check_triggers_and_initiate_flow(S, ev, existing_user)
    : S \in { S0 } })

\* UserStateService.check_and_process_user_with_flow, from the row that
\* get_user_data returned (NoUser: no row) onwards.
ProcessWith(S0, ev, existing_user) ==
    The({
    IF existing_user.idfield = NULL
    THEN LET saved_user == NewUser(ev.channel, ev.channel_account_id)
         IN check_triggers_and_initiate_flow(
                [S EXCEPT !.users = Append(@, saved_user)], ev, saved_user)
    ELSE IF /\ ev.message_type = "delay_complete"
            /\ \/ existing_user.delay_node_data.id = NULL
               \/ ~existing_user.is_in_automation
               \/ existing_user.current_flow_id = NULL
    THEN [S EXCEPT !.path = "delay_dropped"]
    ELSE IF /\ existing_user.is_in_automation
            /\ existing_user.current_flow_id # NULL
            /\ \/ existing_user.current_node_id # NULL
               \/ ev.message_type = "delay_complete"
    THEN IF /\ existing_user.delay_node_data.id # NULL
            /\ ev.message_type # "delay_complete"
         THEN handle_delay_interrupt(S, ev, existing_user)
         ELSE IF ev.message_type = "delay_complete"
         THEN HandleDelayComplete(S, ev, existing_user)
         ELSE HandleReply(S, ev, existing_user)
    ELSE check_triggers_and_initiate_flow(S, ev, existing_user)
    : S \in { S0 } })

\* check_and_process_user_with_flow run without interruption.
check_and_process_user_with_flow(S0, ev) ==
    The({ ProcessWith(S, ev, existing_user)
          : S \in { S0 },
            existing_user \in { get_user_data(S0.users, ev.channel,
                                              ev.channel_account_id) } })

(***************************************************************************)
(* Intake.                                                                 *)
(***************************************************************************)
\* TimeTriggeredAutomationService.process_scheduled_trigger: the status of
\* its result (the flow execution itself is not implemented).
process_scheduled_trigger(flow_id) ==
    IF flow_id = NULL THEN "error" ELSE "success"

\* WebhookService.is_scheduled_trigger_webhook
is_scheduled_trigger_webhook(request) ==
    /\ request.message_type = "scheduled_trigger"
    /\ request.sender = "system"
    /\ request.channel = "system"

\* update_webhook_message as it would be if a second write followed.
update_webhook_message_twice(S, status) ==
    [S EXCEPT !.audit = @ \o << status, "error" >>]

\* FlowDB.update_webhook_message on the row of this request: one more
\* status value written to it.
update_webhook_message(S, status) == [S EXCEPT !.audit = Append(@, status)]

\* FlowDB.save_webhook_message: the row of this request, as passed in;
\* saved = FALSE: the insert failed and None is returned.
save_webhook_message(S, status, saved) ==
    IF saved THEN [S EXCEPT !.audit = << status >>] ELSE S

\* The hand-over of a request to a downstream service.
Invoke(S) == [S EXCEPT !.invoked = TRUE, !.audit_at_call = S.audit]

\* process_webhook_message as it would be if it went on after a failed
\* save of the pending row.
process_webhook_message_unsaved(S0, request, saved) ==
    The({ update_webhook_message(
              check_and_process_user_with_flow(Invoke(S), request),
              "processed")
          : S \in { save_webhook_message(S0, "pending", saved) } })

\* WebhookService.process_webhook_message.  saved tells whether
\* save_webhook_message returned the pending row.
process_webhook_message(S0, request, saved) ==
    IF ~saved THEN [S0 EXCEPT !.path = "not_saved"]
    ELSE The({
         IF is_scheduled_trigger_webhook(request)
         THEN update_webhook_message(
                  [Invoke(S) EXCEPT !.path = "scheduled_trigger"],
                  IF process_scheduled_trigger(request.flow_id) = "success"
                  THEN "processed" ELSE "error")
         ELSE update_webhook_message(
                  check_and_process_user_with_flow(Invoke(S), request),
                  "processed")
         : S \in { save_webhook_message(S0, "pending", saved) } })

(***************************************************************************)
(* Delay scheduler.                                                        *)
(***************************************************************************)
\* FlowDB.get_pending_delays: unprocessed rows whose time has come.
get_pending_delays(drows, time) ==
    SelectSeq([i \in 1..Len(drows) |-> i],
              LAMBDA i : ~drows[i].processed
                         /\ drows[i].delay_completes_at <= time)

\* mark_delay_as_processed as it would be if the write were lost.
mark_delay_as_processed_lost(drows, i) == drows

\* FlowDB.mark_delay_as_processed
mark_delay_as_processed(drows, i) == [drows EXCEPT ![i].processed = TRUE]

\* The synthetic request of _trigger_delay_complete_webhook as Intake hands
\* it to the orchestrator: the account of the Delay row travels as
\* channel_identifier; there is no channel_phone_number_id, so the
\* orchestrator gets channel_account_id = None.
DelayCompleteEvent(delay) ==
    [message_type |-> "delay_complete", user_reply |-> << >>,
     channel |-> delay.channel, channel_account_id |-> NULL,
     channel_identifier |-> delay.channel_account_id,
     delay_node_id |-> delay.delay_node_id]

(***************************************************************************)
(* What one handled event did: the event, the user row before and after,   *)
(* and the calls made.                                                     *)
(***************************************************************************)
Record(ev, rows, S) ==
    LET i == FindUserIdx(rows, ev.channel, ev.channel_account_id)
        j == IF i = 0 THEN Len(rows) + 1 ELSE i
    IN [ev |-> ev,
        known |-> i # 0,
        pre |-> IF i = 0 THEN NoUser ELSE rows[i],
        post |-> IF j <= Len(S.users) THEN S.users[j] ELSE NoUser,
        path |-> S.path, vstatus |-> S.vstatus,
        wstatus |-> S.wstatus, wnext |-> S.wnext, werr |-> S.werr,
        wcalls |-> S.wcalls, wflow |-> S.wflow,
        wsource |-> S.wsource, wtarget |-> S.wtarget,
        sent |-> S.sent, txns |-> S.txns,
        terminal |-> S.terminal, delay_reached |-> S.delay_reached,
        new_delays |-> SubSeq(S.delays, S.delays_before + 1, Len(S.delays)),
        audit |-> S.audit, invoked |-> S.invoked,
        audit_at_call |-> S.audit_at_call, delay_id |-> 0,
        users_before |-> rows, users_after |-> S.users,
        delays_before |-> S.delays0, delays_after |-> S.delays]

RECURSIVE ProcessExpired(_, _, _, _, _, _, _, _)
\* DelaySchedulerService._process_expired_delays: every row of the pending
\* list is delivered through Intake (when its user row is found) and then
\* marked processed.
ProcessExpired(pending, rows, drows, context, time, fail, saved, acc) ==
    IF pending = << >>
    THEN [users |-> rows, delays |-> drows, ctx |-> context, log |-> acc]
    ELSE LET d == drows[Head(pending)]
             ev == DelayCompleteEvent(d)
             found == FindUserIdx(rows, d.channel, d.channel_account_id) # 0
         IN The({ ProcessExpired(Tail(pending), S.users,
                      mark_delay_as_processed(S.delays, Head(pending)),
                      S.ctx, time, S.fail, saved,
                      IF found
                      THEN Append(acc, [Record(ev, rows, S) EXCEPT
                                           !.delay_id = Head(pending)])
                      ELSE acc)
                  : S \in { IF found
                            THEN process_webhook_message(
                                     Work(rows, drows, context, time, fail),
                                     ev, saved)
                            ELSE Work(rows, drows, context, time, fail) } })

(***************************************************************************)
(* Specification: events of one end user, each handled to completion.      *)
(***************************************************************************)
Replies ==
    { <<"h", "i">>, <<"g", "o">>, <<"A", "s", "k">>, <<"E", "n", "d">>,
      <<"B", "a", "d">>, <<"Y", "e", "s">>, <<"N", "o">>, <<"o", "k">>,
      <<"k">> }

Identities ==
    { [channel |-> "whatsapp", channel_account_id |-> "A1"],
      [channel |-> "telegram", channel_account_id |-> NULL] }

InboundEvents(who) ==
    { [message_type |-> "text", user_reply |-> r, channel |-> who.channel,
       channel_account_id |-> who.channel_account_id,
       channel_identifier |-> who.channel_account_id, delay_node_id |-> NULL]
        : r \in Replies }
    \cup
    { [message_type |-> "button", user_reply |-> <<"h", "i">>,
       channel |-> who.channel,
       channel_account_id |-> who.channel_account_id,
       channel_identifier |-> who.channel_account_id, delay_node_id |-> NULL] }

\* A reply that matches no expected answer of the button or list question
\* the user sits on and no answer of another button or list node.
Unmatched(rows, ev) ==
    LET pre == get_user_data(rows, ev.channel, ev.channel_account_id)
        flow == get_flow_by_id(pre.current_flow_id)
        node == FindNode(flow, pre.current_node_id)
    IN /\ pre.is_in_automation
       /\ node.type \in {"button_question", "list_question"}
       /\ process_reply_match(node, ev.user_reply) = NULL
       /\ handle_reply_mismatch(flow, ev.user_reply,
              get_flow_edges(pre.current_flow_id)).status
            # "matched_other_node"

NoStreak == [n |-> 0, before |-> TRUE, all |-> TRUE]

\* History of the scheduler: FiredOf(f, i) is the number of delay_complete
\* events emitted so far for the i-th Delay row (counted up to MaxFired).
FiredOf(f, i) == IF i <= Len(f) THEN f[i] ELSE 0

NextFired(f, records, n) ==
    [i \in 1..n |->
        LET c == FiredOf(f, i)
                 + Cardinality({k \in 1..Len(records) :
                                   records[k].delay_id = i})
        IN IF c < MaxFired THEN c ELSE MaxFired]

\* History of the consecutive unmatched replies since failure_count was 0:
\* their number, whether every earlier one was validated with its answer
\* dispatched, and whether that holds of the last one too.
NextStreak(rows, ev, S) ==
    LET pre == get_user_data(rows, ev.channel, ev.channel_account_id)
        clean == S.vstatus \in {"mismatch_retry", "validation_exit"}
                 /\ ~S.werr
    IN IF ~Unmatched(rows, ev) THEN NoStreak
       ELSE IF streak.n = 0
       THEN IF pre.failure_count = 0
            THEN [n |-> 1, before |-> TRUE, all |-> clean]
            ELSE NoStreak
       ELSE [n |-> IF streak.n < MaxStreak THEN streak.n + 1 ELSE MaxStreak,
             before |-> streak.all, all |-> streak.all /\ clean]

Init ==
    /\ flows = Flows
    /\ flow_triggers = FlowTriggers
    /\ users = << >>
    /\ delays = << >>
    /\ ctx = << >>
    /\ now = 0
    /\ senders \in { {who} : who \in Identities }
    /\ inflight = << >>
    /\ streak = NoStreak
    /\ fired = << >>
    /\ log = << >>

\* POST /webhook/message for the scheduled-trigger system event.
ScheduledRequests ==
    { [message_type |-> "scheduled_trigger", user_reply |-> << >>,
       sender |-> "system", channel |-> "system", channel_account_id |-> NULL,
       channel_identifier |-> NULL, delay_node_id |-> NULL, flow_id |-> f]
        : f \in {"F1", NULL} }

\* POST /webhook/message for a channel event or a scheduled trigger, handled
\* to completion.
Receive(ev, fail, saved) ==
    \E S \in { process_webhook_message(
                   Work(users, delays, ctx, now, fail), ev, saved) } :
       /\ Len(S.delays) <= MaxDelays
       /\ users' = S.users
       /\ delays' = S.delays
       /\ ctx' = S.ctx
       /\ streak' = IF S.path \in {"not_saved", "scheduled_trigger"}
                    THEN streak ELSE NextStreak(users, ev, S)
       /\ log' = << Record(ev, users, S) >>
       /\ UNCHANGED <<flows, flow_triggers, now, senders, inflight, fired>>

\* One pass of the scheduler loop over the due delays.
SchedulerTick(fail, saved) ==
    \E R \in { ProcessExpired(get_pending_delays(delays, now), users, delays,
                              ctx, now, fail, saved, << >>) } :
       /\ get_pending_delays(delays, now) # << >>
       /\ Len(R.delays) <= MaxDelays
       /\ users' = R.users
       /\ delays' = R.delays
       /\ ctx' = R.ctx
       /\ streak' = NoStreak
       /\ fired' = NextFired(fired, R.log, Len(R.delays))
       /\ log' = R.log
       /\ UNCHANGED <<flows, flow_triggers, now, senders, inflight>>

\* Time passes while some delay is still running.
TimePasses ==
    /\ \E i \in 1..Len(delays) :
          ~delays[i].processed /\ delays[i].delay_completes_at > now
    /\ now' = now + 1
    /\ log' = << >>
    /\ UNCHANGED <<flows, flow_triggers, users, delays, ctx, senders, inflight,
                 streak, fired>>

Next ==
    \/ \E who \in senders : \E ev \in InboundEvents(who) :
          \E fail \in 0..MaxFail : Receive(ev, fail, TRUE)
    \/ \E fail \in 0..MaxFail : SchedulerTick(fail, TRUE)
    \/ TimePasses

Spec == Init /\ [][Next]_vars

\* The scheduler loop runs for as long as the service does
\* (_scheduler_loop: one pass, a sleep, the next pass), and time passes.
Fairness ==
    /\ WF_vars(\E fail \in 0..MaxFail : SchedulerTick(fail, TRUE))
    /\ WF_vars(TimePasses)

SpecLive == Init /\ [][Next]_vars /\ Fairness

(***************************************************************************)
(* Specification with overlapping handlers.  The handler is a coroutine    *)
(* that yields at every database or HTTP await and nothing keeps a second  *)
(* request for the same user from running meanwhile: one request can read  *)
(* the user row (get_user_data) before another, begun earlier, has written *)
(* its result.  inflight holds the requests of the current episode, each   *)
(* with the row it read and the store as it was when the episode began.    *)
(***************************************************************************)
ConcReplies ==
    { <<"h", "i">>, <<"g", "o">>, <<"A", "s", "k">>, <<"k">>, <<"o", "k">> }

ConcEvents(who) ==
    { ev \in InboundEvents(who) :
         ev.message_type = "text" /\ ev.user_reply \in ConcReplies }

Store == [users |-> users, delays |-> delays, ctx |-> ctx]

Task(ev, base) ==
    [ev |-> ev,
     existing_user |-> get_user_data(users, ev.channel, ev.channel_account_id),
     base |-> base, done |-> FALSE]

\* A request arrives and reads the user row; at most two overlap.
Begin(ev) ==
    /\ \/ /\ \A i \in 1..Len(inflight) : inflight[i].done
          /\ inflight' = << Task(ev, Store) >>
       \/ /\ Len(inflight) = 1
          /\ ~inflight[1].done
          /\ inflight' = Append(inflight, Task(ev, inflight[1].base))
    /\ log' = << >>
    /\ UNCHANGED <<flows, flow_triggers, users, delays, ctx, now, senders,
                 streak, fired>>

\* A request that has read its row runs to the end on the current store.
Finish(i) ==
    /\ i \in 1..Len(inflight)
    /\ ~inflight[i].done
    /\ \E S \in { ProcessWith(Work(users, delays, ctx, now, 0),
                               inflight[i].ev, inflight[i].existing_user) } :
          /\ Len(S.delays) <= MaxDelays
          /\ users' = S.users
          /\ delays' = S.delays
          /\ ctx' = S.ctx
          /\ log' = << Record(inflight[i].ev, users, S) >>
    /\ inflight' = [inflight EXCEPT ![i].done = TRUE]
    /\ UNCHANGED <<flows, flow_triggers, now, senders, streak, fired>>

NextConc ==
    \/ \E who \in senders : \E ev \in ConcEvents(who) : Begin(ev)
    \/ \E i \in 1..2 : Finish(i)

SpecConc == Init /\ [][NextConc]_vars

(***************************************************************************)
(* Specification with one end user writing to two WhatsApp accounts of the *)
(* brand: same brand, channel and phone number, two channel_account_id.    *)
(***************************************************************************)
Accounts ==
    { [channel |-> "whatsapp", channel_account_id |-> a] : a \in {"A1", "A2"} }

AccountReplies ==
    { <<"h", "i">>, <<"Y", "e", "s">>, <<"A", "s", "k">> }

AccountEvents(who) ==
    { ev \in InboundEvents(who) :
         ev.message_type = "text" /\ ev.user_reply \in AccountReplies }

InitAccounts ==
    /\ flows = Flows
    /\ flow_triggers = FlowTriggers
    /\ users = << >>
    /\ delays = << >>
    /\ ctx = << >>
    /\ now = 0
    /\ senders = Accounts
    /\ inflight = << >>
    /\ streak = NoStreak
    /\ fired = << >>
    /\ log = << >>

NextAccounts ==
    \/ \E who \in senders : \E ev \in AccountEvents(who) :
          Receive(ev, 0, TRUE)
    \/ SchedulerTick(0, TRUE)
    \/ TimePasses

SpecAccounts == InitAccounts /\ [][NextAccounts]_vars

(***************************************************************************)
(* Specification with the same two accounts on a flow whose interruptible  *)
(* delay D2 leads, when interrupted, to the message node ME: both users    *)
(* of the one phone number can wait on D2 at the same time.  Only replies  *)
(* are handled; no delay comes due.                                        *)
(***************************************************************************)
\* The flow with the target of the edge leaving one source replaced.
WithEdge(flow, source_node_id, target_node_id) ==
    [flow EXCEPT !.edges =
        [i \in 1..Len(flow.edges) |->
            IF flow.edges[i].source_node_id = source_node_id
            THEN Edge(source_node_id, target_node_id)
            ELSE flow.edges[i]]]

SharedReplies ==
    { <<"h", "i">>, <<"A", "s", "k">>, <<"o", "k">> }

SharedEvents(who) ==
    { ev \in InboundEvents(who) :
         ev.message_type = "text" /\ ev.user_reply \in SharedReplies }

InitShared ==
    /\ flows = << WithEdge(Flows[1], "D2__interrupted", "ME") >>
    /\ flow_triggers = FlowTriggers
    /\ users = << >>
    /\ delays = << >>
    /\ ctx = << >>
    /\ now = 0
    /\ senders = Accounts
    /\ inflight = << >>
    /\ streak = NoStreak
    /\ fired = << >>
    /\ log = << >>

NextShared ==
    \E who \in senders : \E ev \in SharedEvents(who) :
          Receive(ev, 0, TRUE)

SpecShared == InitShared /\ [][NextShared]_vars

(***************************************************************************)
(* Specification over the delay settings: the delay node D1 of the stored  *)
(* flow has any duration up to MaxDuration in any of the four units, and   *)
(* one end user walks to it.                                               *)
(***************************************************************************)
DelayUnits == {"seconds", "minutes", "hours", "days"}

\* The flow with the duration and unit of one of its delay nodes replaced.
WithDelay(flow, node_id, delay_duration, delay_unit) ==
    [flow EXCEPT !.flowNodes =
        [i \in 1..Len(flow.flowNodes) |->
            IF flow.flowNodes[i].id = node_id
            THEN [flow.flowNodes[i] EXCEPT !.delayDuration = delay_duration,
                                           !.delayUnit = delay_unit]
            ELSE flow.flowNodes[i]]]

UnitReplies == { <<"h", "i">>, <<"Y", "e", "s">>, <<"k">> }

UnitEvents(who) ==
    { ev \in InboundEvents(who) :
         ev.message_type = "text" /\ ev.user_reply \in UnitReplies }

InitUnits ==
    /\ flows \in { << WithDelay(Flows[1], "D1", d, u) >> :
                      d \in 0..MaxDuration, u \in DelayUnits }
    /\ flow_triggers = FlowTriggers
    /\ users = << >>
    /\ delays = << >>
    /\ ctx = << >>
    /\ now = 0
    /\ senders \in { {who} : who \in Identities }
    /\ inflight = << >>
    /\ streak = NoStreak
    /\ fired = << >>
    /\ log = << >>

NextUnits ==
    \E who \in senders : \E ev \in UnitEvents(who) : Receive(ev, 0, TRUE)

SpecUnits == InitUnits /\ [][NextUnits]_vars

(***************************************************************************)
(* Specification of Intake: channel events, scheduled triggers and         *)
(* scheduler ticks, with inserts of the pending WebhookMessage row that    *)
(* can fail.                                                               *)
(***************************************************************************)
IntakeReplies == { <<"h", "i">>, <<"Y", "e", "s">>, <<"k">> }

IntakeEvents(who) ==
    { ev \in InboundEvents(who) :
         ev.message_type = "text" /\ ev.user_reply \in IntakeReplies }

NextIntake ==
    \/ \E who \in senders : \E ev \in IntakeEvents(who) :
          \E fail \in 0..1 : \E saved \in BOOLEAN : Receive(ev, fail, saved)
    \/ \E ev \in ScheduledRequests : \E saved \in BOOLEAN :
          Receive(ev, 0, saved)
    \/ \E fail \in 0..1 : \E saved \in BOOLEAN : SchedulerTick(fail, saved)
    \/ TimePasses

SpecIntake == Init /\ [][NextIntake]_vars

(***************************************************************************)
(* Specification of the flow status: an operator updates the flow or asks  *)
(* for a status while events of one end user are handled.  An event that   *)
(* goes to the trigger matcher is handled in the three store reads the     *)
(* code makes, each its own step: the published triggers are loaded and    *)
(* matched, the matched flow is read and its status verified, the walker   *)
(* reads the flow and starts it.                                           *)
(***************************************************************************)
Statuses == {"draft", "published", "stop"}

WithStatus(flow, status) == [flow EXCEPT !.status = status]

\* FlowService.update_flow for a request that names neither flowNodes nor
\* flowEdges: the stored document is overwritten with the dump of a FlowData
\* built without a status, whose default is draft.
update_flow(fl, flow_id) ==
    [i \in 1..Len(fl) |->
        IF fl[i].id = flow_id THEN WithStatus(fl[i], "draft") ELSE fl[i]]

\* POST /flow/status/{flow_id}: without a status the answer is 400; else the
\* route calls flow_service.update_flow_status, which FlowService does not
\* define, and the AttributeError is answered with 500.  The store is not
\* written.
update_flow_status(fl, flow_id, status) ==
    IF status = NULL THEN [flows |-> fl, http |-> 400]
    ELSE [flows |-> fl, http |-> 500]

StatusReplies == { <<"h", "i">>, <<"A", "s", "k">>, <<"k">> }

StatusEvents(who) ==
    { ev \in InboundEvents(who) :
         ev.message_type = "text" /\ ev.user_reply \in StatusReplies }

\* check_and_process_user_with_flow sends the event of this user row to
\* _check_triggers_and_initiate_flow.
StartsAtTriggers(existing_user) ==
    \/ existing_user.idfield = NULL
    \/ ~(/\ existing_user.is_in_automation
         /\ existing_user.current_flow_id # NULL
         /\ existing_user.current_node_id # NULL)

InitStatus ==
    /\ flows \in { << WithStatus(Flows[1], st) >> : st \in Statuses }
    /\ flow_triggers = FlowTriggers
    /\ users = << >>
    /\ delays = << >>
    /\ ctx = << >>
    /\ now = 0
    /\ senders \in { {who} : who \in Identities }
    /\ inflight = << >>
    /\ streak = NoStreak
    /\ fired = << >>
    /\ log = << >>

\* The user row is read (and created when there is none), the triggers of
\* the published flows are loaded and the event is matched against them.
LoadTriggers(ev) ==
    /\ inflight = << >>
    /\ \E existing_user \in { get_user_data(users, ev.channel,
                                             ev.channel_account_id) } :
          /\ StartsAtTriggers(existing_user)
          /\ users' = IF existing_user.idfield = NULL
                      THEN Append(users, NewUser(ev.channel,
                                                 ev.channel_account_id))
                      ELSE users
    /\ inflight' = << [ev |-> ev, pc |-> "matched", base |-> users,
                       hit |-> check_and_get_flow_for_trigger(
                                   ev.message_type, ev.user_reply)] >>
    /\ log' = << >>
    /\ UNCHANGED <<flows, flow_triggers, delays, ctx, now, senders, streak,
                   fired>>

\* The matched flow is read and its status verified; the handler ends here
\* unless the result is triggered.
VerifyFlow ==
    /\ Len(inflight) = 1
    /\ inflight[1].pc = "matched"
    /\ \E t \in { VerifyTrigger(inflight[1].hit) } :
          IF t.status = "triggered" /\ t.flow_id # NULL /\ t.node_id # NULL
          THEN /\ inflight' = << [inflight[1] EXCEPT !.pc = "verified"] >>
               /\ log' = << >>
          ELSE /\ inflight' = << >>
               /\ log' = << Record(inflight[1].ev, inflight[1].base,
                                InitiateFlow(Work(users, delays, ctx, now, 0),
                                    inflight[1].ev,
                                    get_user_data(users, inflight[1].ev.channel,
                                        inflight[1].ev.channel_account_id),
                                    t)) >>
    /\ UNCHANGED <<flows, flow_triggers, users, delays, ctx, now, senders,
                   streak, fired>>

\* The walker is invoked from the trigger node: it reads the flow and
\* processes the node after the trigger; the orchestrator post-processes.
StartFlow(fail) ==
    /\ Len(inflight) = 1
    /\ inflight[1].pc = "verified"
    /\ \E S \in { InitiateFlow(Work(users, delays, ctx, now, fail),
                      inflight[1].ev,
                      get_user_data(users, inflight[1].ev.channel,
                                    inflight[1].ev.channel_account_id),
                      [status |-> "triggered",
                       flow_id |-> inflight[1].hit.flow_id,
                       node_id |-> inflight[1].hit.node_id]) } :
          /\ Len(S.delays) <= MaxDelays
          /\ users' = S.users
          /\ delays' = S.delays
          /\ ctx' = S.ctx
          /\ log' = << Record(inflight[1].ev, inflight[1].base, S) >>
    /\ inflight' = << >>
    /\ UNCHANGED <<flows, flow_triggers, now, senders, streak, fired>>

\* An event of a user who is in a flow, handled to completion.
ReceiveInFlow(ev) ==
    /\ inflight = << >>
    /\ ~StartsAtTriggers(get_user_data(users, ev.channel,
                                       ev.channel_account_id))
    /\ Receive(ev, 0, TRUE)

\* PUT of a flow by the operator.
UpdateFlow(flow_id) ==
    /\ flows' = update_flow(flows, flow_id)
    /\ log' = << >>
    /\ UNCHANGED <<flow_triggers, users, delays, ctx, now, senders, inflight,
                   streak, fired>>

\* POST /flow/status/{flow_id} by the operator.
UpdateFlowStatus(flow_id, status) ==
    /\ \E r \in { update_flow_status(flows, flow_id, status) } :
          /\ flows' = r.flows
          /\ log' = << [path |-> "update_flow_status", flow_id |-> flow_id,
                        status |-> status, http |-> r.http,
                        before |-> get_flow_by_id(flow_id).status,
                        after |-> SelectSeq(r.flows,
                                     LAMBDA f : f.id = flow_id)[1].status] >>
    /\ UNCHANGED <<flow_triggers, users, delays, ctx, now, senders, inflight,
                   streak, fired>>

NextStatus ==
    \/ \E who \in senders : \E ev \in StatusEvents(who) : LoadTriggers(ev)
    \/ VerifyFlow
    \/ \E fail \in 0..1 : StartFlow(fail)
    \/ \E who \in senders : \E ev \in StatusEvents(who) : ReceiveInFlow(ev)
    \/ UpdateFlow("F1")
    \/ \E status \in Statuses \cup {NULL} : UpdateFlowStatus("F1", status)

SpecStatus == InitStatus /\ [][NextStatus]_vars

(***************************************************************************)
(* Specification of the trigger matcher: any trigger table of up to        *)
(* MaxTriggers rows over two flows, the second of them published or not,   *)
(* and any of a few raw texts as a text or a button event.                 *)
(***************************************************************************)
Trigger(flow_id, trigger_type, trigger_values) ==
    [flow_id |-> flow_id, node_id |-> "T", trigger_type |-> trigger_type,
     trigger_values |-> trigger_values]

TriggerPool ==
    { Trigger("F1", "keyword", << <<"h", "i">> >>),
      Trigger("F2", "keyword", << <<"G", "o">>, <<"H", "i">> >>),
      Trigger("F2", "template", << <<"H", "I">> >>),
      Trigger("F1", "template", << <<"g", "o">> >>) }

TriggerTables == UNION { [1..n -> TriggerPool] : n \in 0..MaxTriggers }

RawTexts ==
    { << >>, << " " >>, <<"h", "i">>, <<"H", "I">>, <<" ", "h", "i">>,
      <<"g", "o">>, <<"G", "o", " ">>, <<"o", "h", " ", "h", "i">>, <<"h">> }

\* ChannelMessageAdapter.normalize_message: user_reply is the text of the
\* message without its leading and trailing whitespace.
NormalizedReply(raw) == Strip(raw)

InitMatch ==
    /\ flows \in { << Flows[1],
                      [WithStatus(Flows[1], st) EXCEPT !.id = "F2"] >>
                    : st \in {"published", "draft"} }
    /\ flow_triggers \in TriggerTables
    /\ users = << >>
    /\ delays = << >>
    /\ ctx = << >>
    /\ now = 0
    /\ senders = {}
    /\ inflight = << >>
    /\ streak = NoStreak
    /\ fired = << >>
    /\ log = << >>

\* One call of the trigger matcher.
Match(message_type, raw) ==
    /\ log' = << [path |-> "match", message_type |-> message_type,
                  user_reply |-> NormalizedReply(raw),
                  triggers |-> get_flow_triggers_by_brand_id,
                  hit |-> check_and_get_flow_for_trigger(
                              message_type, NormalizedReply(raw))] >>
    /\ UNCHANGED <<flows, flow_triggers, users, delays, ctx, now, senders,
                   inflight, streak, fired>>

NextMatch ==
    \E message_type \in {"text", "button"} : \E raw \in RawTexts :
        Match(message_type, raw)

SpecMatch == InitMatch /\ [][NextMatch]_vars

(***************************************************************************)
(* Specification over the edge table: the stored flow as it is, with a     *)
(* second edge leaving the trigger node T or the answer selector B_ask     *)
(* (before or after the first one), or with the edge of T or of B_ask      *)
(* missing; one end user sends replies.                                    *)
(***************************************************************************)
WithEdges(flow, edges) == [flow EXCEPT !.edges = edges]

WithoutEdge(edges, source_node_id) ==
    SelectSeq(edges, LAMBDA e : e.source_node_id # source_node_id)

EdgeTables ==
    { F1Edges,
      << Edge("T", "ME") >> \o F1Edges,
      F1Edges \o << Edge("T", "ME") >>,
      << Edge("B_ask", "ME") >> \o F1Edges,
      F1Edges \o << Edge("B_ask", "ME") >>,
      WithoutEdge(F1Edges, "T"),
      WithoutEdge(F1Edges, "B_ask") }

EdgeReplies == { <<"h", "i">>, <<"A", "s", "k">>, <<"k">> }

EdgeEvents(who) ==
    { ev \in InboundEvents(who) :
         ev.message_type = "text" /\ ev.user_reply \in EdgeReplies }

InitEdges ==
    /\ flows \in { << WithEdges(Flows[1], e) >> : e \in EdgeTables }
    /\ flow_triggers = FlowTriggers
    /\ users = << >>
    /\ delays = << >>
    /\ ctx = << >>
    /\ now = 0
    /\ senders \in { {who} : who \in Identities }
    /\ inflight = << >>
    /\ streak = NoStreak
    /\ fired = << >>
    /\ log = << >>

NextEdges ==
    \E who \in senders : \E ev \in EdgeEvents(who) : Receive(ev, 0, TRUE)

SpecEdges == InitEdges /\ [][NextEdges]_vars

(***************************************************************************)
(* Specification: flows whose message node M1 (reached from the answer     *)
(* B_go of the button question B) leads to a text question, a list         *)
(* question or another message; replies handled to completion.             *)
(***************************************************************************)
ChainTargets == { "Q", "L", "M2" }

ChainReplies == { <<"h", "i">>, <<"g", "o">>, <<"G", "o">>, <<"k">> }

ChainEvents(who) ==
    { ev \in InboundEvents(who) :
         ev.message_type = "text" /\ ev.user_reply \in ChainReplies }

InitChain ==
    /\ flows \in { << WithEdge(Flows[1], "M1", t) >> : t \in ChainTargets }
    /\ flow_triggers = FlowTriggers
    /\ users = << >>
    /\ delays = << >>
    /\ ctx = << >>
    /\ now = 0
    /\ senders \in { {who} : who \in Identities }
    /\ inflight = << >>
    /\ streak = NoStreak
    /\ fired = << >>
    /\ log = << >>

NextChain ==
    \E who \in senders : \E ev \in ChainEvents(who) :
       \E fail \in 0..MaxFail : Receive(ev, fail, TRUE)

SpecChain == InitChain /\ [][NextChain]_vars

(***************************************************************************)
(* Specification of the condition evaluator: the condition node C of the   *)
(* stored flow tests one variable against one value with each of the four  *)
(* text comparisons, the variable being captured or not, and the node is   *)
(* evaluated.                                                              *)
(***************************************************************************)
CapturedValues ==
    { <<"g", "o">>, <<"G", "o">>, <<"g">>, <<"a", "g", "o">>, <<"o", "g">>,
      <<"g", "o", " ">> }

ConditionValues ==
    { << >>, <<"g", "o">>, <<"G", "O">>, <<"g">>, <<"a", "g", "o">>,
      <<"o", "g">> }

ConditionVariables == { <<"@", "x">>, <<"x">> }

Condition(variable, type, value) ==
    [variable |-> variable, flowConditionType |-> type, value |-> value]

TextComparisons(variable, value) ==
    << Condition(variable, "Equal", value),
       Condition(variable, "NotEqual", value),
       Condition(variable, "Contains", value),
       Condition(variable, "NotContains", value) >>

\* The flow with the conditions and the operator of one of its condition
\* nodes replaced.
WithConditions(flow, node_id, conds, op) ==
    [flow EXCEPT !.flowNodes =
        [i \in 1..Len(flow.flowNodes) |->
            IF flow.flowNodes[i].id = node_id
            THEN [flow.flowNodes[i] EXCEPT !.flowNodeConditions = conds,
                                           !.conditionOperator = op]
            ELSE flow.flowNodes[i]]]

InitCond ==
    /\ flows \in { << WithConditions(Flows[1], "C", conds, op) >> :
                      conds \in UNION { { TextComparisons(v, e),
                                          << TextComparisons(v, e)[1] >>,
                                          << TextComparisons(v, e)[1],
                                             TextComparisons(v, e)[3] >>,
                                          << TextComparisons(v, e)[2],
                                             TextComparisons(v, e)[3] >> } :
                                        v \in ConditionVariables,
                                        e \in ConditionValues },
                      op \in {"None", "AND", "OR"} }
    /\ flow_triggers = FlowTriggers
    /\ users = << >>
    /\ delays = << >>
    /\ ctx \in { << >> } \cup
               { save_or_update_flow_variable(<< >>, <<"@", "x">>, a) :
                    a \in CapturedValues }
    /\ now = 0
    /\ senders = {}
    /\ inflight = << >>
    /\ streak = NoStreak
    /\ fired = << >>
    /\ log = << >>

\* process_internal_node for a condition node of a stored flow.
EvaluateCondition(flow_id, node_id) ==
    LET node_data == FindNode(get_flow_by_id(flow_id), node_id)
    IN /\ node_data.type = "condition"
       /\ log' = << [path |-> "condition",
                     node_id |-> node_id,
                     operator |-> node_data.conditionOperator,
                     context |-> ctx,
                     conditions |-> node_data.flowNodeConditions,
                     condition_results |->
                         ConditionResults(ctx, node_data.flowNodeConditions),
                     outcome |-> process_internal_node(ctx, node_data)] >>
       /\ UNCHANGED <<flows, flow_triggers, users, delays, ctx, now, senders,
                      inflight, streak, fired>>

NextCond ==
    \E f \in 1..Len(flows) : \E n \in 1..Len(flows[f].flowNodes) :
       EvaluateCondition(flows[f].id, flows[f].flowNodes[n].id)

SpecCond == InitCond /\ [][NextCond]_vars

(***************************************************************************)
(* Specification of the captured variable: the condition node C that       *)
(* follows the text question Q tests @x Equal v for one of several values  *)
(* v, and one end user answers Q, any number of times.                     *)
(***************************************************************************)
RoundValues ==
    { <<"g", "o">>, <<"G", "o">>, <<"o", "k">>, <<"g", "o", "o">> }

RoundReplies ==
    { <<"h", "i">>, <<"A", "s", "k">>, <<"g", "o">>, <<"G", "o">>,
      <<"o", "k">>, <<"k">> }

RoundEvents(who) ==
    { ev \in InboundEvents(who) :
         ev.message_type = "text" /\ ev.user_reply \in RoundReplies }

InitRound ==
    /\ flows \in { << WithConditions(Flows[1], "C",
                         << Condition(<<"@", "x">>, "Equal", v) >>,
                         "None") >> : v \in RoundValues }
    /\ flow_triggers = FlowTriggers
    /\ users = << >>
    /\ delays = << >>
    /\ ctx = << >>
    /\ now = 0
    /\ senders \in { {who} : who \in Identities }
    /\ inflight = << >>
    /\ streak = NoStreak
    /\ fired = << >>
    /\ log = << >>

NextRound ==
    \E who \in senders : \E ev \in RoundEvents(who) : Receive(ev, 0, TRUE)

SpecRound == InitRound /\ [][NextRound]_vars

(***************************************************************************)
(* Specification over the delay results: the delay node D1 of the stored   *)
(* flow has both selector ids, one of them or none, its __not_interrupted  *)
(* edge leads to the button question B or to the message MQ, and one end   *)
(* user walks to the delays and waits them out.                            *)
(***************************************************************************)
\* The flow with the delayResult of one of its delay nodes replaced.
WithResults(flow, node_id, results) ==
    [flow EXCEPT !.flowNodes =
        [i \in 1..Len(flow.flowNodes) |->
            IF flow.flowNodes[i].id = node_id
            THEN [flow.flowNodes[i] EXCEPT !.results = results]
            ELSE flow.flowNodes[i]]]

DelayResultTables ==
    { << "D1__interrupted", "D1__not_interrupted" >>,
      << "D1__not_interrupted", "D1__interrupted" >>,
      << "D1__not_interrupted" >>,
      << "D1__interrupted" >>,
      << >> }

NotInterruptedTargets == { "B", "MQ" }

ResultReplies ==
    { <<"h", "i">>, <<"g", "o">>, <<"Y", "e", "s">>, <<"A", "s", "k">>,
      <<"o", "k">> }

ResultEvents(who) ==
    { ev \in InboundEvents(who) :
         ev.message_type = "text" /\ ev.user_reply \in ResultReplies }

InitResults ==
    /\ flows \in { << WithEdge(WithResults(Flows[1], "D1", rs),
                               "D1__not_interrupted", t) >> :
                      rs \in DelayResultTables, t \in NotInterruptedTargets }
    /\ flow_triggers = FlowTriggers
    /\ users = << >>
    /\ delays = << >>
    /\ ctx = << >>
    /\ now = 0
    /\ senders \in { {who} : who \in Identities }
    /\ inflight = << >>
    /\ streak = NoStreak
    /\ fired = << >>
    /\ log = << >>

NextResults ==
    \/ \E who \in senders : \E ev \in ResultEvents(who) :
          Receive(ev, 0, TRUE)
    \/ \E fail \in 0..1 : SchedulerTick(fail, TRUE)
    \/ TimePasses

SpecResults == InitResults /\ [][NextResults]_vars

(***************************************************************************)
(* Specification over small flows: the nodes T, M1, M2, C and Q with T ->  *)
(* M1 and Q -> M2, and every choice of the edges leaving M1, M2, C__true   *)
(* and C__false in which the nodes that wait for no input (message,        *)
(* condition) form no cycle.                                               *)
(***************************************************************************)
WalkNodes ==
    SelectSeq(F1Nodes, LAMBDA n : n.id \in {"T", "M1", "M2", "C", "Q"})

\* The nodes an edge list leads to from a node that waits for no input (from
\* its selector ids for a condition node), input nodes left out.
NextNonInput(edges, node_id) ==
    LET sources == IF node_id = "C" THEN {"C__true", "C__false"}
                   ELSE {node_id}
    IN { edges[i].target_node_id : i \in { j \in 1..Len(edges) :
           /\ edges[j].source_node_id \in sources
           /\ edges[j].target_node_id \in {"M1", "M2", "C"} } }

RECURSIVE ReachedWithin(_, _, _)
ReachedWithin(edges, from, n) ==
    IF n = 0 THEN {}
    ELSE LET step == UNION { NextNonInput(edges, m) : m \in from }
         IN step \cup ReachedWithin(edges, step, n - 1)

NoCycle(edges) ==
    \A m \in {"M1", "M2", "C"} :
        m \notin ReachedWithin(edges, {m}, Len(WalkNodes))

WalkEdgeTables ==
    LET targets == {"M1", "M2", "C", "Q", NULL}
        table(a, b, c, d) ==
            SelectSeq(<< Edge("T", "M1"), Edge("Q", "M2"), Edge("M1", a),
                         Edge("M2", b), Edge("C__true", c),
                         Edge("C__false", d) >>,
                      LAMBDA e : e.target_node_id # NULL)
    IN { t \in { table(a, b, c, d) : a \in targets \ {"M1"},
                                     b \in targets \ {"M2"},
                                     c \in targets \ {"C"},
                                     d \in targets \ {"C"} } : NoCycle(t) }

InitWalk ==
    /\ flows \in { << [id |-> "F1", status |-> "published",
                       flowNodes |-> WalkNodes, edges |-> t] >> :
                      t \in WalkEdgeTables }
    /\ flow_triggers = FlowTriggers
    /\ users = << >>
    /\ delays = << >>
    /\ ctx = << >>
    /\ now = 0
    /\ senders \in { {who} : who \in Identities }
    /\ inflight = << >>
    /\ streak = NoStreak
    /\ fired = << >>
    /\ log = << >>

NextWalk ==
    \E who \in senders :
       \E ev \in { e \in InboundEvents(who) :
                      /\ e.message_type = "text"
                      /\ e.user_reply \in { <<"h", "i">>, <<"o", "k">>,
                                            <<"g", "o">> } } :
          \E fail \in 0..MaxFail : Receive(ev, fail, TRUE)

SpecWalk == InitWalk /\ [][NextWalk]_vars

(***************************************************************************)
(* Specification with the scheduler loop overlapping a request: the loop   *)
(* is a task of the same event loop as the request handlers, and both      *)
(* yield at every database await.  A pass of the loop over one due Delay   *)
(* row and a request of the same user can each read the user row before    *)
(* the other has written its result, and a request can be handled between  *)
(* the loop's read of the pending rows and the read of the user row by the *)
(* handler of the delivery (late).  Each task of inflight keeps the row it *)
(* read, the Delay row it delivers (0 for a request) and, once it has      *)
(* finished, what it did.                                                  *)
(***************************************************************************)
RaceReplies == { <<"h", "i">>, <<"A", "s", "k">>, <<"o", "k">> }

RaceEvents(who) ==
    { ev \in InboundEvents(who) :
         ev.message_type = "text" /\ ev.user_reply \in RaceReplies }

RaceTask(ev, delay_id, late) ==
    [ev |-> ev,
     existing_user |-> get_user_data(users, ev.channel, ev.channel_account_id),
     delay_id |-> delay_id, late |-> late, done |-> FALSE, out |-> << >>]

\* The user row the handler of a task works on: the one read when the task
\* began, or the current one when the handler had not yet read it.
RowOf(task) ==
    IF task.late
    THEN get_user_data(users, task.ev.channel, task.ev.channel_account_id)
    ELSE task.existing_user

\* A task starts and reads the user row; at most two overlap.
RaceBegin(ev, delay_id, late) ==
    /\ \/ /\ \A i \in 1..Len(inflight) : inflight[i].done
          /\ inflight' = << RaceTask(ev, delay_id, late) >>
       \/ /\ Len(inflight) = 1
          /\ ~inflight[1].done
          /\ (delay_id # 0) # (inflight[1].delay_id # 0)
          /\ inflight' = Append(inflight, RaceTask(ev, delay_id, late))
    /\ log' = << >>
    /\ UNCHANGED <<flows, flow_triggers, users, delays, ctx, now, senders,
                 streak, fired>>

\* _process_expired_delays has read the pending rows and reaches a due row
\* whose user exists; it posts the delay_complete event of the row.
RaceBeginTick(d, late) ==
    /\ \E k \in 1..Len(get_pending_delays(delays, now)) :
          get_pending_delays(delays, now)[k] = d
    /\ FindUserIdx(users, delays[d].channel, delays[d].channel_account_id) # 0
    /\ RaceBegin(DelayCompleteEvent(delays[d]), d, late)

\* A task that has read its row runs to the end on the current store; the
\* scheduler then marks the row it delivered.
RaceFinish(i) ==
    /\ i \in 1..Len(inflight)
    /\ ~inflight[i].done
    /\ \E S \in { update_webhook_message(
                      ProcessWith(
                          Invoke(save_webhook_message(
                              Work(users, delays, ctx, now, 0), "pending",
                              TRUE)),
                          inflight[i].ev, RowOf(inflight[i])),
                      "processed") } :
          /\ Len(S.delays) <= MaxDelays
          /\ users' = S.users
          /\ delays' = IF inflight[i].delay_id = 0 THEN S.delays
                       ELSE mark_delay_as_processed(S.delays,
                                                    inflight[i].delay_id)
          /\ ctx' = S.ctx
          /\ log' = << [Record(inflight[i].ev, users, S) EXCEPT
                           !.pre = RowOf(inflight[i]),
                           !.delay_id = inflight[i].delay_id] >>
          /\ inflight' = [inflight EXCEPT ![i].done = TRUE, ![i].out = log']
    /\ UNCHANGED <<flows, flow_triggers, now, senders, streak, fired>>

NextRace ==
    \/ \E who \in senders : \E ev \in RaceEvents(who) :
          RaceBegin(ev, 0, FALSE)
    \/ \E d \in 1..MaxDelays : \E late \in BOOLEAN : RaceBeginTick(d, late)
    \/ \E i \in 1..2 : RaceFinish(i)
    \/ TimePasses

SpecRace == Init /\ [][NextRace]_vars

(***************************************************************************)
(* Properties.                                                             *)
(***************************************************************************)
\* The node a user row points at (NoNode when it points at none).
NodeOf(row) == FindNode(get_flow_by_id(row.current_flow_id), row.current_node_id)

SameProgress(a, b) ==
    /\ a.is_in_automation = b.is_in_automation
    /\ a.current_node_id = b.current_node_id
    /\ a.failure_count = b.failure_count

\* C1: whatever events (replies, delay_complete) have been handled, a stored
\* user with is_in_automation = true has a current_flow_id and a
\* current_node_id that are not null.
C1_InAutomationHasPosition ==
    \A i \in 1..Len(users) :
        users[i].is_in_automation =>
            /\ users[i].current_flow_id # NULL
            /\ users[i].current_node_id # NULL

\* A delay_complete was handled with success and the user stays in automation.
C1_Witness ==
    \E k \in 1..Len(log) :
        /\ log[k].path = "delay_complete"
        /\ log[k].wstatus = "success"
        /\ log[k].post.is_in_automation
        /\ log[k].post.current_node_id = "B"

\* What the claim compares of a user row.
Outcome(rows, ev) ==
    LET row == get_user_data(rows, ev.channel, ev.channel_account_id)
    IN [current_node_id |-> row.current_node_id,
        failure_count |-> row.failure_count,
        delay_node_data |-> row.delay_node_data]

\* The store after handling a and then b, one after the other.
Serial(base, a, b) ==
    The({ check_and_process_user_with_flow(
              Work(S1.users, S1.delays, S1.ctx, now, 0), b).users
          : S1 \in { check_and_process_user_with_flow(
                         Work(base.users, base.delays, base.ctx, now, 0),
                         a) } })

\* C2: two events of one user handled concurrently are serialized: once
\* both are handled, the user's current_node_id, failure_count and
\* delay_node_data are those of handling the two in one of the two serial
\* orders.
C2_ConcurrentPairSerialized ==
    (Len(inflight) = 2 /\ inflight[1].done /\ inflight[2].done) =>
        LET a == inflight[1].ev
            b == inflight[2].ev
            base == inflight[1].base
        IN Outcome(users, a) \in { Outcome(Serial(base, a, b), a),
                                   Outcome(Serial(base, b, a), a) }

\* C3: when a walker call of an event returned status error, the user's
\* is_in_automation, current_node_id and failure_count after the event are
\* those from before the event.
C3_WalkerErrorCommitsNothing ==
    \A k \in 1..Len(log) :
        log[k].werr => SameProgress(log[k].post, log[k].pre)

\* A validated reply whose second or later walker call failed after an
\* earlier one had dispatched a message.
C3_Witness ==
    \E k \in 1..Len(log) :
        /\ log[k].werr
        /\ log[k].pre.is_in_automation
        /\ log[k].vstatus = "matched"
        /\ log[k].wcalls >= 2
        /\ Len(log[k].sent) >= 1

\* A mismatch_retry whose fallback dispatch failed.
C3_WitnessRetry ==
    \E k \in 1..Len(log) :
        log[k].werr /\ log[k].vstatus = "mismatch_retry"

\* C4: a reply handled on a user-input node without walker error raises
\* failure_count by exactly 1 when it is a mismatch_retry, and leaves
\* failure_count = 0 when it is matched, matched_other_node or
\* use_default_edge, whatever nodes lie between the answered node and the
\* node the user ends up on.
C4_CountFollowsOutcome ==
    \A k \in 1..Len(log) :
        (log[k].path = "reply" /\ ~log[k].werr) =>
            /\ log[k].vstatus = "mismatch_retry" =>
                  log[k].post.failure_count = log[k].pre.failure_count + 1
            /\ log[k].vstatus \in {"matched", "matched_other_node",
                                   "use_default_edge"} =>
                  log[k].post.failure_count = 0

\* C5 as stated: from failure_count = 0 on a button or list question with
\* failsCount N, the first N consecutive unmatched replies each yield
\* mismatch_retry and every further one yields validation_exit.
C5_FirstNRetryThenExit ==
    (streak.n > 0 /\ Len(log) = 1) =>
        LET N == FailsCount(NodeOf(log[1].pre))
        IN /\ streak.n <= N => log[1].vstatus = "mismatch_retry"
           /\ streak.n > N => log[1].vstatus = "validation_exit"

\* C5 amended: an unmatched reply validated on a button or list question
\* with failsCount N yields mismatch_retry when the stored failure_count is
\* below N and validation_exit otherwise; failure_count rises by one exactly
\* when the retry was dispatched; so as long as every earlier unmatched
\* reply since failure_count = 0 was validated and dispatched, the first N
\* yield mismatch_retry and the further ones validation_exit.
C5_RetryWhileCountBelowN ==
    \A k \in 1..Len(log) :
        (/\ log[k].vstatus \in {"mismatch_retry", "validation_exit"}
         /\ NodeOf(log[k].pre).type \in {"button_question", "list_question"})
        =>
        LET N == FailsCount(NodeOf(log[k].pre))
        IN /\ log[k].vstatus = "mismatch_retry"
                 <=> log[k].pre.failure_count < N
           /\ log[k].post.failure_count =
                 IF log[k].vstatus = "mismatch_retry" /\ ~log[k].werr
                 THEN log[k].pre.failure_count + 1
                 ELSE log[k].pre.failure_count
           /\ (streak.n > 0 /\ streak.before) =>
                 (log[k].vstatus = "mismatch_retry" <=> streak.n <= N)

\* The third unmatched reply in a row on B (failsCount 2), the two before it
\* answered with a retry: validation_exit.
C5_Witness ==
    /\ streak.n = 3 /\ streak.before
    /\ Len(log) = 1
    /\ log[1].pre.current_node_id = "B"
    /\ log[1].vstatus = "validation_exit"

C7_TerminalClearsPosition ==
    \A k \in 1..Len(log) :
        log[k].terminal # NULL =>
            /\ ~log[k].post.is_in_automation
            /\ log[k].post.current_flow_id = NULL
            /\ log[k].post.current_node_id = NULL

\* C8: after a delay_complete handled with walker success and a
\* next_node_id the stored user's delay_node_data is null.
C8_DelayCompleteClearsDelayData ==
    \A k \in 1..Len(log) :
        (/\ log[k].ev.message_type = "delay_complete"
         /\ log[k].wstatus = "success"
         /\ log[k].wnext # NULL)
        => log[k].post.delay_node_data.id = NULL

\* C9: a user whose delay_node_data is not null is in automation and sits
\* on the delay node stored in delay_node_data.
C9_DelayDataMeansWaiting ==
    \A i \in 1..Len(users) :
        users[i].delay_node_data.id # NULL =>
            /\ users[i].is_in_automation
            /\ users[i].current_node_id = users[i].delay_node_data.id

\* C10: when post-processing reached a delay node, the stored user is in
\* automation on that node with the node as delay_node_data, and exactly
\* one Delay row, unprocessed, was inserted for that user and node.
C10_DelayNodePersisted ==
    \A k \in 1..Len(log) :
        log[k].delay_reached # NULL =>
            /\ log[k].post.is_in_automation
            /\ log[k].post.current_node_id = log[k].delay_reached
            /\ log[k].post.delay_node_data = NodeOf(log[k].post)
            /\ log[k].post.delay_node_data.type = "delay"
            /\ Len(log[k].new_delays) = 1
            /\ ~log[k].new_delays[1].processed
            /\ log[k].new_delays[1].delay_node_id = log[k].delay_reached
            /\ log[k].new_delays[1].flow_id = log[k].post.current_flow_id
            /\ log[k].new_delays[1].channel = log[k].ev.channel
            /\ log[k].new_delays[1].channel_account_id
                  = log[k].post.channel_account_id

\* A delay node reached from a reply that interrupted another delay.
C10_Witness ==
    \E k \in 1..Len(log) :
        /\ log[k].delay_reached = "D1"
        /\ log[k].path = "delay_reply"

\* A user row that waits on a delay: in automation, on the delay node whose
\* object it holds as delay_node_data.
Waiting(row) ==
    /\ row.idfield # NULL
    /\ row.is_in_automation
    /\ row.current_flow_id # NULL
    /\ row.delay_node_data.id # NULL
    /\ row.current_node_id = row.delay_node_data.id

\* The events a channel delivers for an end user.
IsReply(ev) == ev.message_type \in {"text", "button"}

\* C11: when a user waiting on a delay whose delayInterrupt is false sends
\* a reply, neither the validator nor the walker is invoked and the user
\* table and the Delay table are left as they were.
C11_ReplyIgnoredWithoutInterrupt ==
    \A k \in 1..Len(log) :
        (/\ IsReply(log[k].ev)
         /\ log[k].invoked
         /\ Waiting(log[k].pre)
         /\ ~log[k].pre.delay_node_data.delayInterrupt)
        => /\ log[k].vstatus = "none"
           /\ log[k].wcalls = 0
           /\ log[k].sent = << >>
           /\ log[k].users_after = log[k].users_before
           /\ log[k].delays_after = log[k].delays_before

\* A reply of a user waiting on D1 (delayInterrupt false) whose Delay row
\* is still running was handled.
C11_Witness ==
    \E k \in 1..Len(log) :
        /\ IsReply(log[k].ev)
        /\ log[k].invoked
        /\ Waiting(log[k].pre)
        /\ log[k].pre.delay_node_data.id = "D1"
        /\ log[k].path = "delay_ignored"
        /\ \E i \in 1..Len(log[k].delays_before) :
              /\ log[k].delays_before[i].delay_node_id = "D1"
              /\ ~log[k].delays_before[i].processed

\* The Delay rows of the delay a user row waits on.
RowsOf(drows, row) ==
    {i \in 1..Len(drows) :
        /\ drows[i].flow_id = row.current_flow_id
        /\ drows[i].delay_node_id = row.delay_node_data.id
        /\ IdentifierField(drows[i].channel) = row.idfield
        /\ drows[i].channel_account_id = row.channel_account_id}

\* A handled reply of a user waiting on a delay whose delayInterrupt is
\* true, no walker call of which failed.
InterruptingReply(r) ==
    /\ IsReply(r.ev)
    /\ r.invoked
    /\ Waiting(r.pre)
    /\ r.pre.delay_node_data.delayInterrupt
    /\ ~r.werr

\* The target of the edge leaving the __interrupted selector of the delay
\* a user row waits on.
InterruptedTarget(row) ==
    FirstEdgeTarget(get_flow_edges(row.current_flow_id),
                    LastResultId(row.delay_node_data.results, "__interrupted"))

\* After an interrupting reply the Delay rows of the delay are processed
\* and the walker took the user to the target of the __interrupted edge,
\* where the user stays unless the flow ends there.
C12_Cancelled ==
    \A k \in 1..Len(log) :
        InterruptingReply(log[k]) =>
            /\ \A i \in RowsOf(log[k].delays_before, log[k].pre) :
                  log[k].delays_after[i].processed
            /\ log[k].wnext = InterruptedTarget(log[k].pre)
            /\ log[k].terminal = NULL =>
                  /\ log[k].post.is_in_automation
                  /\ log[k].post.current_node_id =
                        InterruptedTarget(log[k].pre)

\* A processed Delay row stays processed, and a scheduler tick emits
\* delay_complete only for rows that were not processed before the tick.
C12_NeverFiredLater ==
    /\ \A i \in 1..Len(delays) : delays[i].processed => delays'[i].processed
    /\ \A k \in 1..Len(log') :
          log'[k].ev.message_type = "delay_complete" =>
              ~delays[log'[k].delay_id].processed

\* C12: when a user waiting on a delay whose delayInterrupt is true sends
\* a reply, the Delay row of that delay is marked processed, the user
\* advances along the edge whose source is the __interrupted selector id,
\* and no later scheduler tick emits delay_complete for that row.
C12_InterruptCancelsDelay == []C12_Cancelled /\ [][C12_NeverFiredLater]_vars

\* C13: the scheduler emits at most one delay_complete event for every
\* Delay row; a row it has fired is processed and is not in the result of
\* get_pending_delays any more.
C13_FiredAtMostOnce ==
    \A i \in 1..Len(delays) :
        /\ FiredOf(fired, i) <= 1
        /\ FiredOf(fired, i) >= 1 =>
              /\ delays[i].processed
              /\ \A t \in now..(now + 2) :
                    \A k \in 1..Len(get_pending_delays(delays, t)) :
                        get_pending_delays(delays, t)[k] # i

\* Two rows have been fired, each by a tick of its own, the second row
\* having been entered after the first one was due.
C13_Witness ==
    /\ Len(delays) = 2
    /\ FiredOf(fired, 1) = 1
    /\ FiredOf(fired, 2) = 1
    /\ delays[1].delay_completes_at <= delays[2].delay_started_at
    /\ Len(log) = 1
    /\ log[1].delay_id = 2

\* C14: when the delivery of the delay_complete event of a due Delay row
\* failed (Intake returned an error result or a walker call failed), the
\* row still has processed = false after the tick.
C14_FailedDeliveryStaysPending ==
    \A k \in 1..Len(log) :
        (/\ log[k].ev.message_type = "delay_complete"
         /\ \/ log[k].werr
            \/ ~log[k].invoked)
        => ~delays[log[k].delay_id].processed

\* C15: a delay_complete event for a known user whose delay_node_data is
\* null or who is not in automation is dropped: no walker call, no
\* dispatch, and the user table and the Delay table are left as they were.
C15_StaleDelayCompleteDropped ==
    \A k \in 1..Len(log) :
        (/\ log[k].ev.message_type = "delay_complete"
         /\ log[k].invoked
         /\ log[k].known
         /\ \/ log[k].pre.delay_node_data.id = NULL
            \/ ~log[k].pre.is_in_automation)
        => /\ log[k].path = "delay_dropped"
           /\ log[k].wcalls = 0
           /\ log[k].sent = << >>
           /\ log[k].txns = << >>
           /\ log[k].users_after = log[k].users_before
           /\ log[k].delays_after = log[k].delays_before

\* A delay_complete event reached a user row that holds no delay.
C15_Witness ==
    \E k \in 1..Len(log) :
        /\ log[k].ev.message_type = "delay_complete"
        /\ log[k].invoked
        /\ log[k].known
        /\ log[k].pre.delay_node_data.id = NULL
        /\ log[k].path = "delay_dropped"

\* The channel account an event is addressed to: the account of the Delay
\* row for a delay_complete event, the account of the request otherwise.
AddressedAccount(ev) ==
    IF ev.message_type = "delay_complete"
    THEN ev.channel_identifier ELSE ev.channel_account_id

\* C17: handling an event addressed to one channel account takes its
\* state from the User row of that account only and leaves the User rows
\* of the other accounts of the same brand, channel and identifier as
\* they were.
C17_OtherAccountUntouched ==
    \A k \in 1..Len(log) :
        /\ log[k].known =>
              log[k].pre.channel_account_id = AddressedAccount(log[k].ev)
        /\ \A i \in 1..Len(log[k].users_before) :
              log[k].users_before[i].channel_account_id
                  # AddressedAccount(log[k].ev)
              => log[k].users_after[i] = log[k].users_before[i]

\* Seconds in one unit of delay time.
UnitSeconds(delay_unit) ==
    CASE delay_unit = "seconds" -> 1
      [] delay_unit = "minutes" -> 60
      [] delay_unit = "hours" -> 3600
      [] delay_unit = "days" -> 86400

\* C16: every Delay row has delay_completes_at = delay_started_at +
\* wait_time_seconds, where wait_time_seconds is delayDuration times 1,
\* 60, 3600 or 86400 for the unit seconds, minutes, hours or days, which
\* is also the wait_time_seconds the internal node processor returns for
\* the delay node.
C16_DelayRowTimes ==
    \A i \in 1..Len(delays) :
        LET node == delays[i].delay_node_data
        IN /\ delays[i].delay_completes_at
                 = delays[i].delay_started_at + delays[i].wait_time_seconds
           /\ delays[i].wait_time_seconds
                 = node.delayDuration * UnitSeconds(node.delayUnit)
           /\ delays[i].wait_time_seconds
                 = process_delay_node(node).pv.wait_time_seconds

\* A Delay row of two hours has been written.
C16_Witness ==
    \E i \in 1..Len(delays) :
        /\ delays[i].delay_node_data.delayUnit = "hours"
        /\ delays[i].delay_node_data.delayDuration = 2
        /\ delays[i].delay_completes_at = 7200

\* C18: a downstream service is invoked for an event only when the
\* WebhookMessage row of the event holds status pending at that moment,
\* and when the row could not be saved nothing is invoked: no validator
\* call, no walker call, no dispatch, no store write.
C18_PendingRowBeforeWork ==
    \A k \in 1..Len(log) :
        /\ log[k].invoked => log[k].audit_at_call = << "pending" >>
        /\ log[k].audit = << >> =>
              /\ ~log[k].invoked
              /\ log[k].vstatus = "none"
              /\ log[k].wcalls = 0
              /\ log[k].sent = << >>
              /\ log[k].txns = << >>
              /\ log[k].users_after = log[k].users_before
              /\ log[k].delays_after = log[k].delays_before

\* The reply of a user in automation arrived while the pending row could
\* not be saved.
C18_Witness ==
    \E k \in 1..Len(log) :
        /\ IsReply(log[k].ev)
        /\ log[k].known
        /\ log[k].pre.is_in_automation
        /\ log[k].pre.delay_node_data.id = NULL
        /\ log[k].audit = << >>
        /\ log[k].path = "not_saved"

\* C19: when a walker call made while an event is handled returns an
\* error, the WebhookMessage row of the event ends with status error.
C19_WalkerErrorMarksAuditError ==
    \A k \in 1..Len(log) :
        (log[k].invoked /\ log[k].werr) =>
            log[k].audit[Len(log[k].audit)] = "error"

\* C20: the status of a WebhookMessage row starts as pending and is
\* written at most once more, to processed or to error.
C20_AuditLifecycle ==
    \A k \in 1..Len(log) :
        log[k].audit \in { << >>, << "pending" >>,
                           << "pending", "processed" >>,
                           << "pending", "error" >> }

\* A row ended with status error and, in the same state of the store, a
\* user is in automation from an event whose row ended processed.
C20_Witness ==
    /\ \E k \in 1..Len(log) : log[k].audit = << "pending", "error" >>
    /\ \E i \in 1..Len(users) : users[i].is_in_automation

\* C21: a flow whose status is not published is never started by an event:
\* whenever the walker is invoked from a trigger node, the flow it reads is
\* published at that moment, also when the status changed after the
\* triggers were loaded.
C21_OnlyPublishedFlowStarted ==
    \A k \in 1..Len(log) :
        (log[k].path = "trigger" /\ log[k].wcalls > 0) =>
            get_flow_by_id(log[k].wflow).status = "published"

\* C29: the flow status operation sets the stored status to published or to
\* stop when asked to, and rejects a request to set draft, which leaves the
\* stored status as it was.
C29_StatusOperationSetsStatus ==
    \A k \in 1..Len(log) :
        log[k].path = "update_flow_status" =>
            /\ log[k].status \in {"published", "stop"} =>
                  log[k].after = log[k].status
            /\ log[k].status = "draft" =>
                  /\ log[k].http >= 400
                  /\ log[k].after = log[k].before

\* The ids of a trigger.
IdsOf(trigger) == [flow_id |-> trigger.flow_id, node_id |-> trigger.node_id]

\* The rows of a trigger table that match an event.
MatchingRows(triggers, message_type, user_reply) ==
    {i \in 1..Len(triggers) :
        TriggerMatches(triggers[i], message_type, user_reply)}

\* C22: the trigger matcher returns the (flow_id, trigger_node_id) of the
\* first trigger, in the order of the loaded trigger table, that matches
\* the event, and nothing when no trigger matches.
C22_FirstStoredMatch ==
    \A k \in 1..Len(log) :
        log[k].path = "match" =>
            LET hits == MatchingRows(log[k].triggers, log[k].message_type,
                                     log[k].user_reply)
            IN IF log[k].user_reply = << >> \/ hits = {}
               THEN log[k].hit = NoHit
               ELSE \E i \in hits :
                       /\ \A j \in hits : i <= j
                       /\ log[k].hit = IdsOf(log[k].triggers[i])

\* Two triggers of different flows match the event and the first one is
\* returned.
C22_Witness ==
    \E k \in 1..Len(log) :
        /\ log[k].path = "match"
        /\ MatchingRows(log[k].triggers, log[k].message_type,
                        log[k].user_reply) = {1, 2}
        /\ log[k].triggers[1].flow_id = "F2"
        /\ log[k].triggers[2].flow_id = "F1"
        /\ log[k].hit.flow_id = "F2"

\* A text is a substring of another, letter case ignored.
SubstringIgnoringCase(value, text) ==
    \E i \in 1..(Len(text) + 1) : \E j \in (i - 1)..Len(text) :
        Lower(SubSeq(text, i, j)) = Lower(value)

\* What the claim says of one trigger and one event.
ClaimedMatch(trigger, message_type, user_reply) ==
    /\ user_reply # << >>
    /\ \/ /\ trigger.trigger_type = "keyword"
          /\ message_type = "text"
          /\ \E v \in 1..Len(trigger.trigger_values) :
                SubstringIgnoringCase(trigger.trigger_values[v], user_reply)
       \/ /\ trigger.trigger_type = "template"
          /\ \E v \in 1..Len(trigger.trigger_values) :
                Lower(trigger.trigger_values[v]) = Lower(user_reply)

\* C23: a keyword trigger matches only a text event one of whose trigger
\* values is a case-insensitive substring of the trimmed user_reply; a
\* template trigger matches an event of any type exactly when one of its
\* values equals the user_reply, letter case ignored; an event with no text
\* matches no trigger.  So the matcher returns a trigger exactly when some
\* trigger of the table matches in this sense, and the trigger returned
\* is one that does.
C23_KeywordAndTemplateMatch ==
    \A k \in 1..Len(log) :
        log[k].path = "match" =>
            /\ log[k].hit # NoHit <=>
                  \E i \in 1..Len(log[k].triggers) :
                     ClaimedMatch(log[k].triggers[i], log[k].message_type,
                                  log[k].user_reply)
            /\ log[k].hit # NoHit =>
                  \E i \in 1..Len(log[k].triggers) :
                     /\ log[k].hit = IdsOf(log[k].triggers[i])
                     /\ ClaimedMatch(log[k].triggers[i], log[k].message_type,
                                     log[k].user_reply)

\* A button event with the text "hi": the keyword trigger "hi" of F1 comes
\* first and is passed over, the template trigger "HI" of F2 matches.
C23_Witness ==
    \E k \in 1..Len(log) :
        /\ log[k].path = "match"
        /\ log[k].message_type = "button"
        /\ log[k].user_reply = <<"h", "i">>
        /\ Len(log[k].triggers) = 2
        /\ log[k].triggers[1].trigger_type = "keyword"
        /\ log[k].triggers[1].flow_id = "F1"
        /\ log[k].triggers[2].trigger_type = "template"
        /\ log[k].hit = [flow_id |-> "F2", node_id |-> "T"]

\* The edges of a flow that leave a source id.
EdgesFrom(flow_id, source) ==
    {i \in 1..Len(get_flow_edges(flow_id)) :
        get_flow_edges(flow_id)[i].source_node_id = source}

\* C24: the edge resolution of the walker for a source id (a node id or a
\* selector id) yields a target id if and only if exactly one edge of the
\* flow has that source_node_id, and then the target of that edge;
\* otherwise the walker returns an error.
C24_ResolvesUniqueEdge ==
    \A k \in 1..Len(log) :
        (log[k].path # "match" /\ log[k].wsource # NULL) =>
            LET from == EdgesFrom(log[k].wflow, log[k].wsource)
            IN /\ log[k].wtarget # NULL <=> Cardinality(from) = 1
               /\ Cardinality(from) = 1 =>
                     \A i \in from :
                        log[k].wtarget =
                           get_flow_edges(log[k].wflow)[i].target_node_id
               /\ Cardinality(from) # 1 => log[k].wstatus = "error"

\* The trigger a handled event matches among the published triggers.
HitOf(ev) == check_and_get_flow_for_trigger(ev.message_type, ev.user_reply)

\* The node the edge of the matched trigger node leads to.
StartTarget(ev) ==
    FirstEdgeTarget(get_flow_edges(HitOf(ev).flow_id), HitOf(ev).node_id)

\* A handled text event of an unknown user that matches a published
\* keyword trigger whose start node has an edge to a button_question, no
\* outbound call of which failed.
IgnitingEvent(r) ==
    /\ r.path = "trigger"
    /\ r.ev.message_type = "text"
    /\ ~r.known
    /\ HitOf(r.ev) # NoHit
    /\ FindNode(get_flow_by_id(HitOf(r.ev).flow_id), StartTarget(r.ev)).type
          = "button_question"
    /\ ~r.werr

\* C25: when an unknown user sends a text event that matches a published
\* keyword trigger whose start node T has an edge T -> B to a
\* button_question B, exactly one User row is created, the outbound for B is
\* dispatched once (on WhatsApp, the one channel with an outbound call),
\* and the user ends with is_in_automation = true, current_flow_id = that
\* flow and current_node_id = B.
C25_KeywordTriggerIgnitesFlow ==
    \A k \in 1..Len(log) :
        IgnitingEvent(log[k]) =>
            /\ Len(log[k].users_after) = Len(log[k].users_before) + 1
            /\ SubSeq(log[k].users_after, 1, Len(log[k].users_before))
                  = log[k].users_before
            /\ log[k].sent =
                  IF log[k].ev.channel = "whatsapp"
                  THEN << [current_node_id |-> HitOf(log[k].ev).node_id,
                           next_node_id |-> StartTarget(log[k].ev),
                           fallback_message |-> NULL,
                           is_validation_error |-> FALSE] >>
                  ELSE << >>
            /\ log[k].post.is_in_automation
            /\ log[k].post.current_flow_id = HitOf(log[k].ev).flow_id
            /\ log[k].post.current_node_id = StartTarget(log[k].ev)

\* An unknown WhatsApp user sent "hi": one row was created, B was
\* dispatched, the user sits on B of F1.
C25_Witness ==
    /\ Len(log) = 1
    /\ IgnitingEvent(log[1])
    /\ log[1].ev.channel = "whatsapp"
    /\ log[1].users_before = << >>
    /\ Len(users) = 1
    /\ Len(log[1].sent) = 1
    /\ users[1].is_in_automation
    /\ users[1].current_flow_id = "F1"
    /\ users[1].current_node_id = "B"

\* The answer of the button question the user sits on that the reply equals
\* ignoring case (NULL when there is none).
AnswerOf(r) ==
    LET node == FindNode(get_flow_by_id(r.pre.current_flow_id),
                         r.pre.current_node_id)
        hits == { a \in 1..Len(node.expectedAnswers) :
                     EqualsIgnoreCase(node.expectedAnswers[a].expectedInput,
                                      r.ev.user_reply) }
    IN IF node.type = "button_question" /\ hits # {}
       THEN node.expectedAnswers[CHOOSE a \in hits : TRUE].id
       ELSE NULL

\* The node the edges lead to from a source, in the flow of the record.
TargetOf(r, source) ==
    FirstEdgeTarget(get_flow_edges(r.pre.current_flow_id), source)

TypeOf(r, node_id) ==
    FindNode(get_flow_by_id(r.pre.current_flow_id), node_id).type

\* A reply of a user in automation at a button question that equals an
\* expected answer whose edge leads to a message node M, with M leading to a
\* text question, every outbound call of the event having succeeded.
ButtonToMessageToQuestion(r) ==
    /\ r.path # "match"
    /\ r.ev.message_type = "text"
    /\ r.known
    /\ r.pre.is_in_automation
    /\ AnswerOf(r) # NULL
    /\ TypeOf(r, TargetOf(r, AnswerOf(r))) = "message"
    /\ TypeOf(r, TargetOf(r, TargetOf(r, AnswerOf(r)))) = "question"
    /\ ~r.werr

Dispatches(r, node_id) ==
    Cardinality({ i \in 1..Len(r.sent) : r.sent[i].next_node_id = node_id })

\* C26: when a user at button_question B sends a reply equal (ignoring case)
\* to an expected answer whose id is the source of an edge to message node M,
\* and M has an edge to question Q, then M and Q are each dispatched exactly
\* once (on WhatsApp, the one channel with an outbound call) and the user
\* ends with is_in_automation = true and current_node_id = Q.
C26_MessageThenQuestion ==
    \A k \in 1..Len(log) :
        ButtonToMessageToQuestion(log[k]) =>
            LET M == TargetOf(log[k], AnswerOf(log[k]))
                Q == TargetOf(log[k], M)
                n == IF log[k].ev.channel = "whatsapp" THEN 1 ELSE 0
            IN /\ Dispatches(log[k], M) = n
               /\ Dispatches(log[k], Q) = n
               /\ Len(log[k].sent) = 2 * n
               /\ log[k].post.is_in_automation
               /\ log[k].post.current_flow_id = log[k].pre.current_flow_id
               /\ log[k].post.current_node_id = Q

\* A WhatsApp user at B replied "go": M1 and Q were dispatched, the user
\* sits on Q.
C26_Witness ==
    /\ Len(log) = 1
    /\ ButtonToMessageToQuestion(log[1])
    /\ log[1].ev.channel = "whatsapp"
    /\ log[1].ev.user_reply = <<"g", "o">>
    /\ log[1].pre.current_node_id = "B"
    /\ Len(log[1].sent) = 2
    /\ log[1].sent[1].next_node_id = "M1"
    /\ log[1].sent[2].next_node_id = "Q"
    /\ users[1].is_in_automation
    /\ users[1].current_node_id = "Q"

\* Two entries of one evaluation that test the same variable against the
\* same value.
SameOperands(r, i, j) ==
    /\ r.conditions[i].variable = r.conditions[j].variable
    /\ r.conditions[i].value = r.conditions[j].value

\* C27: for every pair of operands (captured variable value, condition
\* value), the evaluator's NotEqual result is the negation of its Equal
\* result and its NotContains result is the negation of its Contains result.
C27_NegatedComparisons ==
    \A k \in 1..Len(log) :
        log[k].path = "condition" =>
            \A i, j \in 1..Len(log[k].conditions) :
                /\ SameOperands(log[k], i, j)
                /\ \/ /\ log[k].conditions[i].flowConditionType = "Equal"
                      /\ log[k].conditions[j].flowConditionType = "NotEqual"
                   \/ /\ log[k].conditions[i].flowConditionType = "Contains"
                      /\ log[k].conditions[j].flowConditionType
                            = "NotContains"
                => log[k].condition_results[j]
                      = ~log[k].condition_results[i]

\* The captured "Go" was tested against "GO": Equal and Contains gave true,
\* NotEqual and NotContains false.
C27_Witness ==
    /\ Len(log) = 1
    /\ log[1].path = "condition"
    /\ ContextGet(log[1].context, <<"@", "x">>) = <<"G", "o">>
    /\ log[1].conditions[1].value = <<"G", "O">>
    /\ log[1].condition_results = << TRUE, FALSE, TRUE, FALSE >>

\* The condition node that follows the node the user sat on.
ConditionAfter(r) ==
    FindNode(get_flow_by_id(r.pre.current_flow_id),
             TargetOf(r, r.pre.current_node_id))

\* A reply accepted by a text question that captures @x, the question being
\* followed by a condition node testing @x Equal v alone.
AcceptedByQuestion(r) ==
    /\ r.path # "match"
    /\ r.known
    /\ r.pre.is_in_automation
    /\ TypeOf(r, r.pre.current_node_id) = "question"
    /\ FindNode(get_flow_by_id(r.pre.current_flow_id),
                r.pre.current_node_id).userInputVariable = <<"@", "x">>
    /\ r.vstatus = "use_default_edge"
    /\ ConditionAfter(r).type = "condition"
    /\ Len(ConditionAfter(r).flowNodeConditions) = 1
    /\ ConditionAfter(r).flowNodeConditions[1].variable = <<"@", "x">>
    /\ ConditionAfter(r).flowNodeConditions[1].flowConditionType = "Equal"

\* The node processed right after the condition node is the target of the
\* edge leaving its __true selector.
TookTrueBranch(r) ==
    /\ Len(r.txns) >= 2
    /\ r.txns[1] = ConditionAfter(r).id
    /\ r.txns[2] = TargetOf(r, LastResultId(ConditionAfter(r).results,
                                             "__true"))

TestedValue(r) == ConditionAfter(r).flowNodeConditions[1].value

\* C28 as stated: after a text question with userInputVariable "@x" accepts
\* a reply r, a condition node testing @x Equal "v" for the same user and
\* flow evaluates to its __true branch if and only if r equals v.
C28_TrueIffReplyEqualsValue ==
    \A k \in 1..Len(log) :
        AcceptedByQuestion(log[k]) =>
            (TookTrueBranch(log[k])
                <=> log[k].ev.user_reply = TestedValue(log[k]))

\* C28 amended: the condition takes its __true branch if and only if r
\* equals v ignoring letter case.
C28_TrueIffReplyEqualsValueIgnoringCase ==
    \A k \in 1..Len(log) :
        AcceptedByQuestion(log[k]) =>
            (TookTrueBranch(log[k])
                <=> EqualsIgnoreCase(log[k].ev.user_reply,
                                     TestedValue(log[k])))

\* The question accepted "go" while the condition tests @x Equal "Go": the
\* true branch was taken.
C28_Witness ==
    /\ Len(log) = 1
    /\ AcceptedByQuestion(log[1])
    /\ log[1].ev.user_reply = <<"g", "o">>
    /\ TestedValue(log[1]) = <<"G", "o">>
    /\ TookTrueBranch(log[1])
    /\ ContextGet(ctx, <<"@", "x">>) = <<"g", "o">>

\* A delay_complete event delivered to a user who waits on a delay.
CompletesWaitingUser(r) ==
    /\ r.path # "match"
    /\ r.ev.message_type = "delay_complete"
    /\ r.invoked
    /\ r.known
    /\ r.pre.is_in_automation
    /\ r.pre.current_flow_id # NULL
    /\ r.pre.delay_node_data.id # NULL

\* The id of the stored delayResult that contains __not_interrupted.
NotInterruptedId(r) ==
    FirstResultId(r.pre.delay_node_data.results, "__not_interrupted")

Dropped(r) ==
    /\ r.path = "delay_dropped"
    /\ r.wcalls = 0
    /\ r.sent = << >>
    /\ r.users_after = r.users_before

\* C30 as stated: on a delay_complete event for a user waiting on a delay,
\* the walker is invoked with current_node_id = the delayResult id that
\* contains __not_interrupted and (no call having failed) the user ends at
\* the target of the edge whose source is that selector id; when delayResult
\* holds no such id, the event is dropped and the user state is unchanged.
C30_DelayCompleteEndsAtTarget ==
    \A k \in 1..Len(log) :
        CompletesWaitingUser(log[k]) =>
            IF NotInterruptedId(log[k]) = NULL THEN Dropped(log[k])
            ELSE /\ log[k].wcalls >= 1
                 /\ log[k].wsource = NotInterruptedId(log[k])
                 /\ ~log[k].werr =>
                       /\ log[k].post.is_in_automation
                       /\ log[k].post.current_node_id
                             = TargetOf(log[k], NotInterruptedId(log[k]))

\* C30 amended: the walker is invoked with that selector id and resolves
\* the edge leaving it; no call having failed, the user ends in automation
\* at the target of that edge when the target waits for user input, and out
\* of automation when the target is a node without outgoing edge that does
\* not; when delayResult holds no such id, the event is dropped and the
\* user state is unchanged.
C30_DelayCompleteWalksFromSelector ==
    \A k \in 1..Len(log) :
        CompletesWaitingUser(log[k]) =>
            IF NotInterruptedId(log[k]) = NULL THEN Dropped(log[k])
            ELSE LET target == TargetOf(log[k], NotInterruptedId(log[k]))
                 IN /\ log[k].wcalls >= 1
                    /\ log[k].wsource = NotInterruptedId(log[k])
                    /\ log[k].wtarget = target
                    /\ (~log[k].werr
                          /\ UserInputRequired(TypeOf(log[k], target))) =>
                          /\ log[k].post.is_in_automation
                          /\ log[k].post.current_node_id = target
                    /\ (~log[k].werr
                          /\ ~UserInputRequired(TypeOf(log[k], target))
                          /\ TypeOf(log[k], target) # "delay"
                          /\ IsTerminal(
                                get_flow_edges(log[k].pre.current_flow_id),
                                target)) =>
                          ~log[k].post.is_in_automation

\* The delay D1 of a user ran out: the walker went from D1__not_interrupted
\* to B and the user sits on B.
C30_Witness ==
    \E k \in 1..Len(log) :
        /\ CompletesWaitingUser(log[k])
        /\ log[k].pre.current_node_id = "D1"
        /\ log[k].wsource = "D1__not_interrupted"
        /\ log[k].wtarget = "B"
        /\ ~log[k].werr
        /\ log[k].post.is_in_automation
        /\ log[k].post.current_node_id = "B"

\* The delay of a user ran out while the stored delayResult holds no
\* __not_interrupted id: the event was dropped.
C30_WitnessDropped ==
    \E k \in 1..Len(log) :
        /\ CompletesWaitingUser(log[k])
        /\ log[k].pre.delay_node_data.results = << "D1__interrupted" >>
        /\ Dropped(log[k])

\* The captured value of the variable a condition names, the empty text
\* when none is captured.
OperandOf(context, condition) ==
    LET v == condition.variable
        name == IF Len(v) > 0 /\ v[1] = "@" THEN v ELSE <<"@">> \o v
    IN IF name \in DOMAIN context THEN context[name] ELSE << >>

\* The four text comparisons as the claim reads them.
Compared(actual, type, expected) ==
    CASE type = "Equal" -> EqualsIgnoreCase(actual, expected)
      [] type = "NotEqual" -> ~EqualsIgnoreCase(actual, expected)
      [] type = "Contains" -> ContainsIgnoreCase(expected, actual)
      [] type = "NotContains" -> ~ContainsIgnoreCase(expected, actual)
      [] OTHER -> FALSE

Combined(r) ==
    LET n == Len(r.conditions)
        one(i) == Compared(OperandOf(r.context, r.conditions[i]),
                           r.conditions[i].flowConditionType,
                           r.conditions[i].value)
    IN IF r.operator = "OR" THEN \E i \in 1..n : one(i)
       ELSE \A i \in 1..n : one(i)

\* C31: a condition node's processed_value is the selector id ending in
\* __true exactly when the per-condition results, combined with AND for
\* conditionOperator AND or None and with OR for conditionOperator OR, are
\* true, and otherwise the selector id ending in __false; a variable with
\* no captured value is compared as the empty string.
C31_ConditionBranch ==
    \A k \in 1..Len(log) :
        (log[k].path = "condition"
           /\ log[k].operator \in {"AND", "OR", "None"}) =>
            /\ log[k].outcome.status = "success"
            /\ log[k].outcome.pv.id =
                  IF Combined(log[k]) THEN "C__true" ELSE "C__false"

\* With operator None, Equal failed and Contains held: the __false selector;
\* and (second witness) a variable never captured equals the empty value.
C31_Witness ==
    /\ Len(log) = 1
    /\ log[1].path = "condition"
    /\ log[1].operator = "None"
    /\ log[1].condition_results = << FALSE, TRUE >>
    /\ log[1].outcome.pv.id = "C__false"

C31_WitnessUnset ==
    /\ Len(log) = 1
    /\ log[1].path = "condition"
    /\ log[1].context = << >>
    /\ log[1].conditions[1].flowConditionType = "Equal"
    /\ log[1].conditions[1].value = << >>
    /\ Len(log[1].conditions) = 1
    /\ log[1].outcome.pv.id = "C__true"

\* The button_question and list_question nodes of the user's flow that hold
\* an expected answer whose expectedInput is the reply, letter for letter.
NodesExpecting(r) ==
    LET nodes == get_flow_by_id(r.pre.current_flow_id).flowNodes
    IN { nodes[i].id : i \in { j \in 1..Len(nodes) :
           /\ nodes[j].type \in {"button_question", "list_question"}
           /\ \E a \in 1..Len(nodes[j].expectedAnswers) :
                 nodes[j].expectedAnswers[a].expectedInput
                    = r.ev.user_reply } }

\* A validated reply to a button or list question that matches no expected
\* answer of that node.
MismatchedReply(r) ==
    /\ r.path = "reply"
    /\ r.vstatus \notin {"none", "error"}
    /\ NodeOf(r.pre).type \in {"button_question", "list_question"}
    /\ process_reply_match(NodeOf(r.pre), r.ev.user_reply) = NULL

\* C32: when a reply to a button_question or list_question matches no
\* expected answer of the current node, the validator returns
\* matched_other_node{node_id} if and only if some button_question or
\* list_question node of the flow has an expectedInput exactly matching the
\* reply, with node_id the id of that node (the node the walker is then
\* asked to process).
C32_MatchedOtherNodeIffExpected ==
    \A k \in 1..Len(log) :
        MismatchedReply(log[k]) =>
            /\ log[k].vstatus = "matched_other_node"
                  <=> NodesExpecting(log[k]) # {}
            /\ (log[k].vstatus = "matched_other_node" /\ ~log[k].werr)
                  => log[k].wnext \in NodesExpecting(log[k])

\* A reply event that went through the validator.
Validated(r) == r.path = "reply" /\ r.vstatus # "none"

\* The handler wrote no user row and no Delay row after the validator
\* returned: the fallback of a validation exit was sent, or the walker call
\* failed.
NothingAfterValidator(r) == r.vstatus = "validation_exit" \/ r.werr

\* C33: validate_and_match never changes the user's is_in_automation,
\* current_flow_id, current_node_id, validation or delay_node_data; its only
\* store write is the FlowUserContext upsert of the reply under the node's
\* userInputVariable when a text question's validation passes.  Seen from
\* the store: an event whose handler writes nothing after the validator
\* leaves the User and Delay tables as they were, and the captured
\* variables change only by that upsert.
C33_ValidatorFrame ==
    [][ \A k \in 1..Len(log') :
          Validated(log'[k]) =>
             LET r == log'[k]
                 node == NodeOf(r.pre)
                 captures == /\ r.vstatus = "use_default_edge"
                             /\ node.type = "question"
                             /\ node.userInputVariable # << >>
             IN /\ NothingAfterValidator(r) =>
                      /\ r.users_after = r.users_before
                      /\ r.delays_after = r.delays_before
                /\ captures =>
                      ctx' = save_or_update_flow_variable(ctx,
                                 node.userInputVariable, r.ev.user_reply)
                /\ ~captures => ctx' = ctx ]_vars

\* A text question rejected the reply "k": count, position and captured
\* variables are as before; and (C33_WitnessStored) it accepted "ok" and
\* stored it.
C33_Witness ==
    /\ Len(log) = 1
    /\ Validated(log[1])
    /\ log[1].pre.current_node_id = "Q"
    /\ log[1].ev.user_reply = <<"k">>
    /\ log[1].vstatus = "validation_exit"
    /\ log[1].users_after = log[1].users_before
    /\ ctx # << >>

C33_WitnessStored ==
    /\ Len(log) = 1
    /\ Validated(log[1])
    /\ log[1].pre.current_node_id = "Q"
    /\ log[1].vstatus = "use_default_edge"
    /\ ContextGet(ctx, <<"@", "x">>) = log[1].ev.user_reply

\* The UserTransaction rows of one event that name a node.
RowsFor(r, node_id) ==
    Cardinality({ i \in 1..Len(r.txns) : r.txns[i] = node_id })

\* An event handled by a walker that made at least one outbound dispatch.
Dispatching(r) ==
    /\ r.path \notin {"match", "condition", "update_flow_status"}
    /\ Len(r.sent) > 0

\* C34: while one inbound event is handled, every node that the walker
\* successfully dispatches gets exactly one UserTransaction row appended
\* (one for each dispatch), including a message node from which the walker
\* auto-chains to the next node.
C34_OneTransactionPerDispatch ==
    \A k \in 1..Len(log) :
        Dispatching(log[k]) =>
            \A i \in 1..Len(log[k].sent) :
                log[k].sent[i].next_node_id # NULL =>
                    RowsFor(log[k], log[k].sent[i].next_node_id)
                        = Dispatches(log[k], log[k].sent[i].next_node_id)

\* The message node that follows a message node, NULL when the node is no
\* message node or is followed by none.
ChainedAfter(r, node_id) ==
    LET flow_id == r.wflow
        flow == get_flow_by_id(flow_id)
        target == FirstEdgeTarget(get_flow_edges(flow_id), node_id)
    IN IF FindNode(flow, node_id).type = "message"
          /\ target # NULL /\ FindNode(flow, target).type = "message"
       THEN target ELSE NULL

\* C35: when the walker auto-chains on WhatsApp through consecutive message
\* nodes M1 -> M2 -> ... -> X, every message node of the chain is dispatched
\* exactly once, in edge order, before X is processed; no message node of
\* the chain is skipped.
C35_ChainDispatchesEveryMessage ==
    \A k \in 1..Len(log) :
        (Dispatching(log[k]) /\ log[k].ev.channel = "whatsapp"
           /\ ~log[k].werr) =>
            \A i \in 1..Len(log[k].sent) :
                LET m == log[k].sent[i].next_node_id
                IN (m # NULL /\ ChainedAfter(log[k], m) # NULL) =>
                      /\ i < Len(log[k].sent)
                      /\ log[k].sent[i + 1].next_node_id
                            = ChainedAfter(log[k], m)
                      /\ Dispatches(log[k], m) = 1

\* The number of nodes of the flow an event was walked in.
NodesOfFlow(r) == Len(get_flow_by_id(r.wflow).flowNodes)

\* C36: for every flow whose non-input nodes (message, condition) form no
\* cycle, handling one inbound event terminates, with the number of walker
\* invocations and of outbound dispatches bounded by the number of nodes of
\* the flow.
C36_WalkBoundedByNodes ==
    \A k \in 1..Len(log) :
        (log[k].path \notin {"match", "condition", "update_flow_status"}
           /\ log[k].wcalls > 0) =>
            /\ log[k].wcalls <= NodesOfFlow(log[k])
            /\ Len(log[k].sent) <= NodesOfFlow(log[k])

\* On Telegram the walk T -> M1 -> M2 -> C -> Q took four walker calls in a
\* flow of five nodes.
C36_Witness ==
    /\ Len(log) = 1
    /\ log[1].path = "trigger"
    /\ log[1].wcalls = 4
    /\ NodesOfFlow(log[1]) = 5
    /\ users[1].is_in_automation
    /\ users[1].current_node_id = "Q"

\* What a finished task of inflight did (a task has one record).
OutOf(task) == task.out[1]

\* The task delivered the delay_complete event of Delay row d and walked
\* the user along the __not_interrupted selector of the delay.
AdvancedNotInterrupted(task, d) ==
    /\ task.done
    /\ task.delay_id = d
    /\ OutOf(task).path = "delay_complete"
    /\ OutOf(task).wcalls >= 1
    /\ OutOf(task).wsource = NotInterruptedId(OutOf(task))
    /\ ~OutOf(task).werr

\* The task handled a reply of the user waiting on the delay of Delay row d
\* and walked the user along the __interrupted selector of the delay.
AdvancedInterrupted(task, d) ==
    /\ task.done
    /\ task.delay_id = 0
    /\ d \in RowsOf(delays, task.existing_user)
    /\ OutOf(task).path = "delay_reply"
    /\ OutOf(task).wcalls >= 1
    /\ OutOf(task).wsource
          = LastResultId(task.existing_user.delay_node_data.results,
                         "__interrupted")
    /\ ~OutOf(task).werr

\* C37: under every interleaving of a scheduler tick and a user reply for
\* the same delay-waiting user, the user is advanced along at most one of
\* the two branches of the delay (__interrupted or __not_interrupted) for
\* that Delay row: no tick and reply that read the same waiting user row
\* both walk the user, one from each selector.
C37_AtMostOneBranchPerDelayRow ==
    \A d \in 1..Len(delays) :
        \A i, j \in 1..Len(inflight) :
            ~(/\ AdvancedNotInterrupted(inflight[i], d)
              /\ AdvancedInterrupted(inflight[j], d)
              /\ OutOf(inflight[i]).pre = OutOf(inflight[j]).pre)

\* Two user rows carry the same identity key (the brand and the identifier
\* are those of the one end user of the model).
SameIdentity(a, b) ==
    /\ a.idfield = b.idfield
    /\ a.channel_account_id = b.channel_account_id

\* C40: two concurrent first events from the same unknown identity create
\* exactly one User row for that identity key; in every reachable state at
\* most one User row exists per (brand, channel, channel_account_id,
\* identifier).
C40_OneUserRowPerIdentity ==
    \A i, j \in 1..Len(users) :
        SameIdentity(users[i], users[j]) => i = j

\* The one end user of the model waits on the delay node d.
WaitingOn(d) ==
    /\ Len(users) >= 1
    /\ Waiting(users[1])
    /\ users[1].delay_node_data.id = d

\* C38: every user who enters a delay node eventually stops waiting on it:
\* under fair scheduler ticks, a user whose delay_node_data is set is
\* eventually advanced past the delay or taken out of automation, even if
\* the user never sends a reply.
C38_WaitingEnds ==
    \A d \in {"D1", "D2"} : WaitingOn(d) ~> ~WaitingOn(d)

\* The user row a handled event found is the one it left.
UserUnchanged(r) ==
    /\ r.users_after = r.users_before
    /\ r.wcalls = 0

\* C39: a delay_complete event advances a user only when it was emitted for
\* the delay node the user is currently waiting on; an event emitted for an
\* earlier or different delay node of that user leaves the user state
\* unchanged.
C39_OnlyCurrentDelayAdvances ==
    \A k \in 1..Len(log) :
        (/\ log[k].path \notin {"match", "condition", "update_flow_status"}
         /\ log[k].ev.message_type = "delay_complete"
         /\ log[k].known
         /\ log[k].ev.delay_node_id # log[k].pre.delay_node_data.id)
        => UserUnchanged(log[k])

====
